---- MODULE Spec2Model ----
(***************************************************************************)
(* RalphMeter: the gate tracker (src/core/gates.ts), the event collector   *)
(* (src/core/collector.ts), the metrics calculator (src/core/metrics.ts)   *)
(* and the LOC counter (src/core/loc.ts).                                  *)
(*                                                                         *)
(* A GateTracker holds a gate policy (config) and, per session, an         *)
(* append-only array of gate verification results.  Every read operation   *)
(* recomputes its answer from the array and the policy.                    *)
(*                                                                         *)
(* Strings that the code builds or inspects (file paths, the line keys     *)
(* `${filePath}:${lineNumber}`) are sequences of one-character strings, so *)
(* that concatenation and startsWith are computed as the code computes     *)
(* them.  A JS Map is a sequence of [key, value] entries in insertion      *)
(* order.  JS numbers that are ratios (passRate, poe, overallPoE,          *)
(* thresholds) are exact fractions <<numerator, denominator>> in lowest    *)
(* terms; the timestamps of gate results and the texts of error messages   *)
(* are carried through by the code without being read and are left out.    *)
(* The variable ret holds the last call: its operation and what it        *)
(* returned; for the functions of the LOC counter it holds the call with   *)
(* its arguments, and its result once it has returned.                     *)
(*                                                                         *)
(* An EventCollector holds a Map from session id to a session: its         *)
(* metadata and the array of its accepted events (the variable sessions).  *)
(*                                                                         *)
(* A MetricsCalculator (src/core/metrics.ts) reads the collector and the   *)
(* tracker and holds a Map from session id to the array of that session's  *)
(* Synth trend points (the variable synthTrends).  The numbers it computes *)
(* by division and subtraction are binary floating-point numbers: each     *)
(* result is the exact quotient or difference rounded to the nearest       *)
(* number with SignificandBits significant bits (ties to even).  The code  *)
(* runs with 53 bits; the model rounds in the same way with fewer bits.    *)
(* The timestamp of a trend point (the clock at the call) is never read    *)
(* and is left out.  A formatted report is the array of its lines; a line  *)
(* is its fixed text, with {} standing for each interpolated value, and    *)
(* the formatted values in order.  The box-drawing characters of the text  *)
(* are written in ASCII and runs of spaces as one space.                   *)
(*                                                                         *)
(* countLines works on a content that is a sequence of characters;         *)
(* snapshotCodebase reads a file system that is a tree of directory        *)
(* entries, some of which cannot be read.                                  *)
(***************************************************************************)
EXTENDS Integers, Sequences, FiniteSets, TLC

VARIABLES config, results, ret, sessions, synthTrends

vars == <<config, results, ret, sessions, synthTrends>>

----------------------------------------------------------------------------
(* Bounds of the model *)

\* most line results one recorded result carries
MaxLineResults == 2
\* most results recorded in the tracker (over all sessions)
MaxRecords == 3
\* most line results recorded in the tracker (over all sessions)
MaxObservations == 3
\* most results recorded while thresholds are being set
MaxThresholdRecords == 2
\* most events held by the collector (over all sessions)
MaxEvents == 3
\* most trend points held by the calculator (over all sessions)
MaxMeasurements == 3
\* most results recorded while sessions are metered and measured
MaxStoreRecords == 2
\* most trend points held while results are recorded
MaxStoreMeasurements == 2
MaxReportEvents == 3
MaxReportRecords == 1
MaxReportMeasurements == 1
MaxReadEvents == 2
MaxTokens == 2
MaxContentLines == 2
MaxEntries == 3
\* significant bits of a floating-point number
SignificandBits == 8

----------------------------------------------------------------------------
(* Exact fractions *)

RECURSIVE Gcd(_, _)
Gcd(a, b) == IF b = 0 THEN a ELSE Gcd(b, a % b)

Abs(n) == IF n < 0 THEN 0 - n ELSE n

\* n/d in lowest terms, d > 0
Frac(n, d) ==
    LET g == Gcd(Abs(n), d)
    IN  <<n \div g, d \div g>>

Zero == Frac(0, 1)
One == Frac(1, 1)

FracSub(x, y) == Frac(x[1] * y[2] - y[1] * x[2], x[2] * y[2])
FracMul(x, y) == Frac(x[1] * y[1], x[2] * y[2])
FracLt(x, y) == x[1] * y[2] < y[1] * x[2]

\* x / y for y # 0
FracDiv(x, y) ==
    IF y[1] < 0 THEN Frac((0 - x[1]) * y[2], x[2] * (0 - y[1]))
    ELSE Frac(x[1] * y[2], x[2] * y[1])

----------------------------------------------------------------------------
(* Binary floating point: the Number results of / and -                     *)

RECURSIVE Pow2(_)
Pow2(n) == IF n = 0 THEN 1 ELSE 2 * Pow2(n - 1)

\* a/d > 0 rounded to SignificandBits significant bits, ties to even; up and
\* down are the powers of two by which a and d have been scaled so far
RECURSIVE RoundScaled(_, _, _, _)
RoundScaled(a, d, up, down) ==
    IF a >= d * Pow2(SignificandBits) THEN RoundScaled(a, 2 * d, up, 2 * down)
    ELSE IF a < d * Pow2(SignificandBits - 1) THEN RoundScaled(2 * a, d, 2 * up, down)
    ELSE LET q == a \div d
             r == a % d
             significand == IF 2 * r > d \/ (2 * r = d /\ q % 2 = 1) THEN q + 1 ELSE q
         IN  Frac(significand * down, up)

\* the floating-point number nearest to the exact value x
Fl(x) ==
    IF x[1] = 0 THEN x
    ELSE LET r == RoundScaled(Abs(x[1]), x[2], 1, 1)
         IN  IF x[1] < 0 THEN <<0 - r[1], r[2]>> ELSE r

\* an integer as a number
Num(n) == Frac(n, 1)

\* x / y as the code computes it, for y # 0
Quotient(x, y) == Fl(FracDiv(x, y))

\* x - y as the code computes it
Difference(x, y) == Fl(FracSub(x, y))

----------------------------------------------------------------------------
(* Strings *)

Digits == <<"0", "1", "2", "3", "4", "5", "6", "7", "8", "9">>

\* String(n) for a non-negative integer
RECURSIVE ToStr(_)
ToStr(n) ==
    IF n < 10 THEN <<Digits[n + 1]>>
    ELSE ToStr(n \div 10) \o <<Digits[(n % 10) + 1]>>

\* str.startsWith(prefix)
StartsWith(str, prefix) ==
    /\ Len(prefix) <= Len(str)
    /\ SubSeq(str, 1, Len(prefix)) = prefix

\* `${filePath}:${String(lineNumber)}`
LineKey(filePath, lineNumber) == filePath \o <<":">> \o ToStr(lineNumber)

----------------------------------------------------------------------------
(* JS Map: entries [key, value] in insertion order *)

MapHas(map, key) == \E i \in 1..Len(map) : map[i].key = key

MapGet(map, key) ==
    map[CHOOSE i \in 1..Len(map) : map[i].key = key].value

\* set on an existing key keeps the entry's position
MapSet(map, key, value) ==
    IF MapHas(map, key)
    THEN [i \in 1..Len(map) |->
            IF map[i].key = key THEN [key |-> key, value |-> value] ELSE map[i]]
    ELSE Append(map, [key |-> key, value |-> value])

----------------------------------------------------------------------------
(* Types and inputs *)

ALL_GATES == <<"G1_COMPILE", "G2_CORRECT", "G3_REACHABLE">>

Gates == {ALL_GATES[i] : i \in 1..Len(ALL_GATES)}

\* gate kinds a caller may pass; the last is cast from an arbitrary string
GateInputs == Gates \cup {"INVALID_GATE"}

SessionIds == {"s1", "s2"}

\* "a" and "a:1" (the second extends the first followed by ':')
FilePaths == {<<"a">>, <<"a", ":", "1">>}

\* line numbers an observation may name
Lines == {1, 2}

LineResult == [lineNumber : Lines, passed : BOOLEAN]

RECURSIVE SeqsUpTo(_, _)
SeqsUpTo(S, n) ==
    IF n = 0 THEN {<<>>}
    ELSE LET shorter == SeqsUpTo(S, n - 1)
         IN  shorter \cup {Append(q, x) : q \in {p \in shorter : Len(p) = n - 1}, x \in S}

LineResultLists == SeqsUpTo(LineResult, MaxLineResults)

DEFAULT_GATE_CONFIG ==
    [g \in Gates |-> [required |-> TRUE, threshold |-> One, skip |-> FALSE]]

\* Partial<GateConfig> values a caller supplies for one gate
GatePatches ==
    { [skip |-> TRUE], [skip |-> FALSE],
      [required |-> FALSE], [required |-> TRUE],
      [required |-> TRUE, threshold |-> One, skip |-> TRUE],
      [threshold |-> Frac(3, 2)] }

\* Partial<GateConfiguration> values a caller supplies
ConfigPatches ==
    {<<>>} \cup {[g \in {h} |-> p] : h \in Gates, p \in GatePatches}

\* patches that set one flag of one gate
FlagPatches ==
    {[g \in {h} |-> p] : h \in Gates,
        p \in {[skip |-> TRUE], [skip |-> FALSE], [required |-> FALSE], [required |-> TRUE]}}

\* the JS number NaN: every comparison with it is false
NaN == <<0, 0>>

Half == Frac(1, 2)

\* patches that supply thresholds: valid ones, NaN, ones out of range next to
\* valid fields of the same or of another gate, flags, a whole gate, two gates
\* at once, none
ThresholdPatches ==
    { <<>>,
      [g \in {"G1_COMPILE"} |-> [threshold |-> Half]],
      [g \in {"G1_COMPILE"} |-> [threshold |-> One]],
      [g \in {"G1_COMPILE"} |-> [skip |-> TRUE]],
      [g \in {"G1_COMPILE"} |-> [skip |-> FALSE]],
      [g \in {"G2_CORRECT"} |-> [required |-> FALSE]],
      [g \in {"G2_CORRECT"} |-> [required |-> TRUE]],
      [g \in {"G2_CORRECT"} |-> [required |-> TRUE, threshold |-> One, skip |-> TRUE]],
      [g \in {"G3_REACHABLE"} |-> [threshold |-> NaN]],
      [g \in {"G2_CORRECT"} |-> [required |-> FALSE, threshold |-> Frac(3, 2)]],
      [g \in {"G1_COMPILE", "G2_CORRECT"} |->
            IF g = "G1_COMPILE" THEN [skip |-> TRUE] ELSE [threshold |-> Frac(3, 2)]],
      [g \in {"G1_COMPILE", "G3_REACHABLE"} |->
            IF g = "G1_COMPILE" THEN [threshold |-> Half] ELSE [threshold |-> Frac(-1, 2)]],
      [g \in {"G1_COMPILE", "G3_REACHABLE"} |->
            IF g = "G1_COMPILE" THEN [required |-> FALSE, threshold |-> Half]
            ELSE [skip |-> TRUE]] }

\* the session and the file of the single observations of SpecPolicy
PolicySession == "s1"
PolicyFile == <<"a">>

----------------------------------------------------------------------------
(* Result<T, GateTrackerError> *)

Ok(value) == [ok |-> TRUE, value |-> value]
Err(code) == [ok |-> FALSE, code |-> code]

\* ret: the operation that last returned and its Result; an error carries the
\* value its message interpolates
Returned(op, result) == [op |-> op, result |-> result]
ErrOf(code, about) == [ok |-> FALSE, code |-> code, message |-> about]

\* Array.prototype.includes
Includes(array, x) == \E i \in 1..Len(array) : array[i] = x

----------------------------------------------------------------------------
(* Read operations, as functions of the tracker's fields (store = results,  *)
(* cfg = config)                                                           *)

GetResults(store, sessionId) ==
    IF sessionId \notin DOMAIN store
    THEN Err("SESSION_NOT_FOUND")
    ELSE Ok(store[sessionId])

\* GateLineStep with the latest observation replacing the stored verdict
GateLineStepLastWins(lineMap, filePath, lr) ==
    MapSet(lineMap, LineKey(filePath, lr.lineNumber), lr.passed)

\* one step of the inner loop of getGateStats
GateLineStep(lineMap, filePath, lr) ==
    LET key == LineKey(filePath, lr.lineNumber)
    IN  IF MapHas(lineMap, key)
        THEN MapSet(lineMap, key, MapGet(lineMap, key) /\ lr.passed)
        ELSE MapSet(lineMap, key, lr.passed)

RECURSIVE GateLineLoop(_, _, _)
GateLineLoop(lineMap, filePath, lineResults) ==
    IF lineResults = <<>> THEN lineMap
    ELSE GateLineLoop(GateLineStep(lineMap, filePath, Head(lineResults)),
                      filePath, Tail(lineResults))

\* the outer loop of getGateStats over the results of one gate
RECURSIVE GateLineMap(_, _)
GateLineMap(lineMap, gateResults) ==
    IF gateResults = <<>> THEN lineMap
    ELSE GateLineMap(
            GateLineLoop(lineMap, Head(gateResults).filePath, Head(gateResults).lineResults),
            Tail(gateResults))

\* GateStatsOf with a pass rate of 0 when no line was checked
GateStatsOfZeroRate(lineMap) ==
    LET linesChecked == Len(lineMap)
        linesPassed == Cardinality({i \in 1..Len(lineMap) : lineMap[i].value})
        passRate == IF linesChecked > 0 THEN Frac(linesPassed, linesChecked) ELSE Zero
    IN  [linesChecked |-> linesChecked,
         linesPassed |-> linesPassed,
         passRate |-> passRate,
         poe |-> FracSub(One, passRate)]

GateStatsOf(lineMap) ==
    LET linesChecked == Len(lineMap)
        linesPassed == Cardinality({i \in 1..Len(lineMap) : lineMap[i].value})
        passRate == IF linesChecked > 0 THEN Frac(linesPassed, linesChecked) ELSE One
    IN  [linesChecked |-> linesChecked,
         linesPassed |-> linesPassed,
         passRate |-> passRate,
         poe |-> FracSub(One, passRate)]

\* the lineMap getGateStats builds from a session's result list
GateLines(list, gate) ==
    GateLineMap(<<>>, SelectSeq(list, LAMBDA r : r.gate = gate))

GetGateStats(store, sessionId, gate) ==
    LET resultsResult == GetResults(store, sessionId)
    IN  IF ~resultsResult.ok THEN resultsResult
        ELSE Ok(GateStatsOf(GateLines(resultsResult.value, gate)))

\* an optional boolean: <<>> is undefined, <<b>> is b
Undefined == <<>>
Def(b) == <<b>>

\* AndInto with the latest observation replacing the stored verdict
AndIntoLastWins(prev, passed) == Def(passed)

\* prev && passed, or passed when the field is still undefined
AndInto(prev, passed) ==
    IF prev = Undefined THEN Def(passed) ELSE Def(prev[1] /\ passed)

\* StatusStep entering a line into the map for observations of G1 only
StatusStepCompileOnly(lineMap, result, lr) ==
    LET key == LineKey(result.filePath, lr.lineNumber)
        fresh == [location |-> [filePath |-> result.filePath, lineNumber |-> lr.lineNumber],
                  g1Passed |-> Undefined, g2Passed |-> Undefined, g3Passed |-> Undefined,
                  verified |-> FALSE]
        status == IF MapHas(lineMap, key) THEN MapGet(lineMap, key) ELSE fresh
    IN  IF result.gate = "G1_COMPILE"
        THEN MapSet(lineMap, key, [status EXCEPT !.g1Passed = AndInto(@, lr.passed)])
        ELSE lineMap

\* one step of the inner loop of buildLineVerificationMap
StatusStep(lineMap, result, lr) ==
    LET key == LineKey(result.filePath, lr.lineNumber)
        fresh == [location |-> [filePath |-> result.filePath, lineNumber |-> lr.lineNumber],
                  g1Passed |-> Undefined, g2Passed |-> Undefined, g3Passed |-> Undefined,
                  verified |-> FALSE]
        status == IF MapHas(lineMap, key) THEN MapGet(lineMap, key) ELSE fresh
        updated ==
            CASE result.gate = "G1_COMPILE" ->
                    [status EXCEPT !.g1Passed = AndInto(@, lr.passed)]
              [] result.gate = "G2_CORRECT" ->
                    [status EXCEPT !.g2Passed = AndInto(@, lr.passed)]
              [] result.gate = "G3_REACHABLE" ->
                    [status EXCEPT !.g3Passed = AndInto(@, lr.passed)]
              [] OTHER -> status
    IN  MapSet(lineMap, key, updated)

RECURSIVE StatusLoop(_, _, _)
StatusLoop(lineMap, result, lineResults) ==
    IF lineResults = <<>> THEN lineMap
    ELSE StatusLoop(StatusStep(lineMap, result, Head(lineResults)), result, Tail(lineResults))

RECURSIVE StatusMap(_, _)
StatusMap(lineMap, list) ==
    IF list = <<>> THEN lineMap
    ELSE StatusMap(StatusLoop(lineMap, Head(list), Head(list).lineResults), Tail(list))

BuildLineVerificationMap(store, sessionId) ==
    StatusMap(<<>>, IF sessionId \in DOMAIN store THEN store[sessionId] ELSE <<>>)

\* Applicable only for a gate whose threshold is above 0
ApplicableAboveZero(gateConfig) ==
    ~gateConfig.skip /\ gateConfig.required /\ FracLt(Zero, gateConfig.threshold)

\* Applicable without the required flag
ApplicableUnlessSkipped(gateConfig) == ~gateConfig.skip

\* a gate the verdict consults: required and not skipped
Applicable(gateConfig) == ~gateConfig.skip /\ gateConfig.required

\* IsLineVerified consulting G2 whatever the policy says
IsLineVerifiedG2Always(cfg, status) ==
    IF Applicable(cfg["G1_COMPILE"]) /\ status.g1Passed = Def(FALSE) THEN FALSE
    ELSE IF status.g2Passed = Def(FALSE) THEN FALSE
    ELSE IF Applicable(cfg["G3_REACHABLE"]) /\ status.g3Passed = Def(FALSE) THEN FALSE
    ELSE \/ status.g1Passed # Undefined
         \/ status.g2Passed # Undefined
         \/ status.g3Passed # Undefined

\* IsLineVerified consulting every gate that is not skipped, required or not
IsLineVerifiedIgnoringRequired(cfg, status) ==
    IF ~cfg["G1_COMPILE"].skip /\ status.g1Passed = Def(FALSE) THEN FALSE
    ELSE IF ~cfg["G2_CORRECT"].skip /\ status.g2Passed = Def(FALSE) THEN FALSE
    ELSE IF ~cfg["G3_REACHABLE"].skip /\ status.g3Passed = Def(FALSE) THEN FALSE
    ELSE \/ status.g1Passed # Undefined
         \/ status.g2Passed # Undefined
         \/ status.g3Passed # Undefined

IsLineVerified(cfg, status) ==
    IF Applicable(cfg["G1_COMPILE"]) /\ status.g1Passed = Def(FALSE) THEN FALSE
    ELSE IF Applicable(cfg["G2_CORRECT"]) /\ status.g2Passed = Def(FALSE) THEN FALSE
    ELSE IF Applicable(cfg["G3_REACHABLE"]) /\ status.g3Passed = Def(FALSE) THEN FALSE
    ELSE \/ status.g1Passed # Undefined
         \/ status.g2Passed # Undefined
         \/ status.g3Passed # Undefined

\* PoEProduct multiplying the error probabilities themselves
RECURSIVE PoEProductOfErrors(_, _, _)
PoEProductOfErrors(product, applicableGates, perGate) ==
    IF applicableGates = <<>> THEN product
    ELSE PoEProductOfErrors(FracMul(product, perGate[Head(applicableGates)].poe),
                            Tail(applicableGates), perGate)

\* product *= 1 - perGate[gate].poe, over the applicable gates in array order
RECURSIVE PoEProduct(_, _, _)
PoEProduct(product, applicableGates, perGate) ==
    IF applicableGates = <<>> THEN product
    ELSE PoEProduct(FracMul(product, FracSub(One, perGate[Head(applicableGates)].poe)),
                    Tail(applicableGates), perGate)

GetSessionStats(store, cfg, sessionId) ==
    LET resultsResult == GetResults(store, sessionId)
    IN  IF ~resultsResult.ok THEN resultsResult
        ELSE LET perGate == [g \in Gates |-> GetGateStats(store, sessionId, g).value]
                 lineVerification == BuildLineVerificationMap(store, sessionId)
                 verifiedLines ==
                    Cardinality({i \in 1..Len(lineVerification) :
                                    IsLineVerified(cfg, lineVerification[i].value)})
                 applicableGates == SelectSeq(ALL_GATES, LAMBDA g : Applicable(cfg[g]))
                 overallPoE ==
                    IF Len(applicableGates) = 0 THEN Zero
                    ELSE FracSub(One, PoEProduct(One, applicableGates, perGate))
             IN  Ok([perGate |-> perGate,
                     totalLinesChecked |-> Len(lineVerification),
                     verifiedLines |-> verifiedLines,
                     overallPoE |-> overallPoE])

\* Array.prototype.sort((a, b) => a.location.lineNumber - b.location.lineNumber),
\* which is stable: entries with equal line numbers keep their order
SortInsert(sorted, x) ==
    LET k == Cardinality({i \in 1..Len(sorted) :
                            sorted[i].location.lineNumber <= x.location.lineNumber})
    IN  SubSeq(sorted, 1, k) \o <<x>> \o SubSeq(sorted, k + 1, Len(sorted))

RECURSIVE SortByLineNumber(_)
SortByLineNumber(array) ==
    IF array = <<>> THEN <<>>
    ELSE SortInsert(SortByLineNumber(SubSeq(array, 1, Len(array) - 1)), array[Len(array)])

GetLineVerification(store, cfg, sessionId, filePath) ==
    LET resultsResult == GetResults(store, sessionId)
    IN  IF ~resultsResult.ok THEN resultsResult
        ELSE LET allLineStatus == BuildLineVerificationMap(store, sessionId)
                 matching == SelectSeq(allLineStatus,
                                LAMBDA e : StartsWith(e.key, filePath \o <<":">>))
                 fileLines == [i \in 1..Len(matching) |->
                                [matching[i].value EXCEPT
                                    !.verified = IsLineVerified(cfg, matching[i].value)]]
             IN  Ok(SortByLineNumber(fileLines))

----------------------------------------------------------------------------
(* Mutating operations *)

\* Spread resetting to the defaults the fields an update leaves out
SpreadOntoDefault(old, patch) ==
    IF patch = <<>> THEN old
    ELSE [f \in DOMAIN old \cup DOMAIN patch |->
            IF f \in DOMAIN patch THEN patch[f] ELSE DEFAULT_GATE_CONFIG["G1_COMPILE"][f]]

\* { ...old, ...patch }
Spread(old, patch) ==
    [f \in DOMAIN old \cup DOMAIN patch |-> IF f \in DOMAIN patch THEN patch[f] ELSE old[f]]

\* config?.[gate], an empty object when the gate is absent
PatchOf(patch, gate) == IF gate \in DOMAIN patch THEN patch[gate] ELSE <<>>

\* InvalidThreshold without the lower limit
InvalidThresholdAboveOnly(patch) ==
    \E i \in 1..Len(ALL_GATES) :
        LET gateConfig == PatchOf(patch, ALL_GATES[i])
        IN  /\ "threshold" \in DOMAIN gateConfig
            /\ FracLt(One, gateConfig.threshold)

InvalidThreshold(patch) ==
    \E i \in 1..Len(ALL_GATES) :
        LET gateConfig == PatchOf(patch, ALL_GATES[i])
        IN  /\ "threshold" \in DOMAIN gateConfig
            /\ \/ FracLt(gateConfig.threshold, Zero)
               \/ FracLt(One, gateConfig.threshold)

RECURSIVE CountLineResults(_)
CountLineResults(list) ==
    IF list = <<>> THEN 0
    ELSE Len(Head(list).lineResults) + CountLineResults(Tail(list))

\* the results of every session, one session after the other
RECURSIVE AllResultsOf(_)
AllResultsOf(ids) ==
    IF ids = {} THEN <<>>
    ELSE LET s == CHOOSE x \in ids : TRUE
         IN  results[s] \o AllResultsOf(ids \ {s})

TotalRecords == Len(AllResultsOf(DOMAIN results))

TotalObservations == CountLineResults(AllResultsOf(DOMAIN results))

\* record without the gate validation
RecordUnvalidated(sessionId, result) ==
    /\ results' =
            IF sessionId \in DOMAIN results
            THEN [results EXCEPT ![sessionId] = Append(@, result)]
            ELSE [s \in DOMAIN results \cup {sessionId} |->
                    IF s = sessionId THEN <<result>> ELSE results[s]]
    /\ ret' = Returned("record", Ok([sessionId |-> sessionId,
                                       gate |-> result.gate,
                                       filePath |-> result.filePath,
                                       lineResults |-> result.lineResults]))
    /\ UNCHANGED <<config, sessions, synthTrends>>

\* record keeping only the latest result of the session
RecordReplacing(sessionId, result) ==
    IF ~Includes(ALL_GATES, result.gate)
    THEN /\ ret' = Returned("record", ErrOf("INVALID_GATE", result.gate))
         /\ UNCHANGED <<config, results, sessions, synthTrends>>
    ELSE /\ results' = [s \in DOMAIN results \cup {sessionId} |->
                            IF s = sessionId THEN <<result>> ELSE results[s]]
         /\ ret' = Returned("record", Ok([sessionId |-> sessionId,
                                            gate |-> result.gate,
                                            filePath |-> result.filePath,
                                            lineResults |-> result.lineResults]))
         /\ UNCHANGED <<config, sessions, synthTrends>>

\* record appending to the list of every session on record
RecordShared(sessionId, result) ==
    IF ~Includes(ALL_GATES, result.gate)
    THEN /\ ret' = Returned("record", ErrOf("INVALID_GATE", result.gate))
         /\ UNCHANGED <<config, results, sessions, synthTrends>>
    ELSE /\ results' = [s \in DOMAIN results \cup {sessionId} |->
                            IF s \in DOMAIN results THEN Append(results[s], result)
                            ELSE <<result>>]
         /\ ret' = Returned("record", Ok([sessionId |-> sessionId,
                                            gate |-> result.gate,
                                            filePath |-> result.filePath,
                                            lineResults |-> result.lineResults]))
         /\ UNCHANGED <<config, sessions, synthTrends>>

\* record refusing a session the collector does not hold as active
RecordForActiveSession(sessionId, result) ==
    IF ~Includes(ALL_GATES, result.gate)
    THEN /\ ret' = Returned("record", ErrOf("INVALID_GATE", result.gate))
         /\ UNCHANGED <<config, results, sessions, synthTrends>>
    ELSE IF ~MapHas(sessions, sessionId)
            \/ MapGet(sessions, sessionId).metadata.status # "active"
    THEN /\ ret' = Returned("record", ErrOf("SESSION_NOT_FOUND", sessionId))
         /\ UNCHANGED <<config, results, sessions, synthTrends>>
    ELSE /\ results' =
                IF sessionId \in DOMAIN results
                THEN [results EXCEPT ![sessionId] = Append(@, result)]
                ELSE [s \in DOMAIN results \cup {sessionId} |->
                        IF s = sessionId THEN <<result>> ELSE results[s]]
         /\ ret' = Returned("record", Ok([sessionId |-> sessionId,
                                            gate |-> result.gate,
                                            filePath |-> result.filePath,
                                            lineResults |-> result.lineResults]))
         /\ UNCHANGED <<config, sessions, synthTrends>>

\* the tracker has room, within the bounds of the model, for one more result
HasRoom(lineResults) ==
    TotalObservations + Len(lineResults) <= MaxObservations

Record(sessionId, result) ==
    IF ~Includes(ALL_GATES, result.gate)
    THEN /\ ret' = Returned("record", ErrOf("INVALID_GATE", result.gate))
         /\ UNCHANGED <<config, results, sessions, synthTrends>>
    ELSE /\ results' =
                IF sessionId \in DOMAIN results
                THEN [results EXCEPT ![sessionId] = Append(@, result)]
                ELSE [s \in DOMAIN results \cup {sessionId} |->
                        IF s = sessionId THEN <<result>> ELSE results[s]]
         /\ ret' = Returned("record", Ok([sessionId |-> sessionId,
                                            gate |-> result.gate,
                                            filePath |-> result.filePath,
                                            lineResults |-> result.lineResults]))
         /\ UNCHANGED <<config, sessions, synthTrends>>

SetConfig(patch) ==
    IF InvalidThreshold(patch)
    THEN /\ ret' = Returned("setConfig", ErrOf("INVALID_THRESHOLD", patch))
         /\ UNCHANGED <<config, results, sessions, synthTrends>>
    ELSE /\ config' = [g \in Gates |-> Spread(config[g], PatchOf(patch, g))]
         /\ ret' = Returned("setConfig", Ok(config'))
         /\ UNCHANGED <<results, sessions, synthTrends>>

----------------------------------------------------------------------------
(* The event collector: events and their validation (src/core/events.ts)    *)

EVENT_TYPES ==
    {"session_start", "session_end", "iteration_start", "iteration_end",
     "tokens_in", "tokens_out", "compilation_result", "test_result", "story_complete"}

\* strings that are well-formed UUIDs: the session ids
UUIDs == SessionIds

\* strings that are ISO 8601 datetimes
Timestamps == {"2026-01-30T12:00:00.000Z", "2026-01-30T12:30:00.000Z"}

\* z.number().int().nonnegative() and z.number().int().positive()
NonNegativeInt(x) == x \in Int /\ x >= 0
PositiveInt(x) == x \in Int /\ x > 0

\* the payload schema of each event type
PayloadValid(eventType, payload) ==
    CASE eventType = "session_start" -> TRUE
      [] eventType = "session_end" -> "success" \in DOMAIN payload
      [] eventType = "iteration_start" ->
            /\ {"iterationNumber", "storyId"} \subseteq DOMAIN payload
            /\ PositiveInt(payload.iterationNumber)
      [] eventType = "iteration_end" ->
            /\ {"iterationNumber", "storyId", "success"} \subseteq DOMAIN payload
            /\ PositiveInt(payload.iterationNumber)
      [] eventType \in {"tokens_in", "tokens_out"} ->
            /\ "count" \in DOMAIN payload
            /\ NonNegativeInt(payload.count)
      [] eventType = "compilation_result" -> "success" \in DOMAIN payload
      [] eventType = "test_result" ->
            /\ {"success", "totalTests", "passed", "failed"} \subseteq DOMAIN payload
            /\ NonNegativeInt(payload.totalTests)
            /\ NonNegativeInt(payload.passed)
            /\ NonNegativeInt(payload.failed)
      [] eventType = "story_complete" -> {"storyId", "passes"} \subseteq DOMAIN payload
      [] OTHER -> FALSE

\* MeterEventSchema.safeParse(data).success
SchemaAccepts(data) ==
    /\ {"timestamp", "sessionId", "eventType", "payload"} \subseteq DOMAIN data
    /\ data.timestamp \in Timestamps
    /\ data.sessionId \in UUIDs
    /\ data.eventType \in EVENT_TYPES
    /\ PayloadValid(data.eventType, data.payload)

SafeValidateEvent(data) ==
    IF SchemaAccepts(data) THEN Ok(data)
    ELSE ErrOf("VALIDATION_ERROR", "Event validation failed")

\* an event as a caller builds it
Event(sessionId, timestamp, eventType, payload) ==
    [timestamp |-> timestamp, sessionId |-> sessionId,
     eventType |-> eventType, payload |-> payload]

FirstTimestamp == "2026-01-30T12:00:00.000Z"

\* payloads of the events that are neither session_start nor session_end
ActivityPayloads ==
    [iteration_start |-> {[iterationNumber |-> 1, storyId |-> "US-1"]},
     iteration_end |-> {[iterationNumber |-> 1, storyId |-> "US-1", success |-> TRUE]},
     tokens_in |-> {[count |-> 3]},
     tokens_out |-> {[count |-> 4]},
     compilation_result |-> {[success |-> TRUE], [success |-> FALSE]},
     test_result |-> {[success |-> TRUE, totalTests |-> 1, passed |-> 1, failed |-> 0],
                      [success |-> FALSE, totalTests |-> 1, passed |-> 0, failed |-> 1]},
     story_complete |-> {[storyId |-> "US-1", passes |-> TRUE],
                         [storyId |-> "US-1", passes |-> FALSE]}]

\* well-formed events a caller may emit
ValidEvents ==
    {Event(id, t, "session_start", <<>>) : id \in UUIDs, t \in Timestamps}
    \cup {Event(id, t, "session_end", [success |-> b]) :
                id \in UUIDs, t \in Timestamps, b \in BOOLEAN}
    \cup UNION {{Event(id, FirstTimestamp, type, payload) :
                    id \in UUIDs, payload \in ActivityPayloads[type]} :
                        type \in DOMAIN ActivityPayloads}

\* data the schema rejects
InvalidData ==
    {[invalid |-> "data"],
     Event("not-a-uuid", FirstTimestamp, "session_start", <<>>),
     Event("s1", "not-a-timestamp", "session_start", <<>>),
     Event("s1", FirstTimestamp, "session_stop", <<>>),
     Event("s1", FirstTimestamp, "session_end", <<>>),
     Event("s1", FirstTimestamp, "tokens_in", [count |-> -1])}

EmitInputs == ValidEvents \cup InvalidData

----------------------------------------------------------------------------
(* The event collector (src/core/collector.ts); store = sessions            *)

GetSession(store, id) ==
    IF ~MapHas(store, id)
    THEN ErrOf("SESSION_NOT_FOUND", id)
    ELSE Ok(MapGet(store, id))

\* the values of the Map in insertion order
GetAllSessions(store) == [i \in 1..Len(store) |-> store[i].value]

\* the metrics object calculateMetrics starts from
ZERO_METRICS ==
    [totalIterations |-> 0,
     totalTokensIn |-> 0,
     totalTokensOut |-> 0,
     compilationAttempts |-> 0,
     compilationSuccesses |-> 0,
     testAttempts |-> 0,
     testSuccesses |-> 0,
     storiesCompleted |-> 0,
     storiesPassed |-> 0]

\* the switch of calculateMetrics counting iteration_start as an iteration too
MetricsStepCountingStarts(metrics, event) ==
    CASE event.eventType \in {"iteration_start", "iteration_end"} ->
            [metrics EXCEPT !.totalIterations = @ + 1]
      [] event.eventType = "tokens_in" ->
            [metrics EXCEPT !.totalTokensIn = @ + event.payload.count]
      [] event.eventType = "tokens_out" ->
            [metrics EXCEPT !.totalTokensOut = @ + event.payload.count]
      [] event.eventType = "compilation_result" ->
            [metrics EXCEPT !.compilationAttempts = @ + 1,
                            !.compilationSuccesses =
                                IF event.payload.success THEN @ + 1 ELSE @]
      [] event.eventType = "test_result" ->
            [metrics EXCEPT !.testAttempts = @ + 1,
                            !.testSuccesses = IF event.payload.success THEN @ + 1 ELSE @]
      [] event.eventType = "story_complete" ->
            [metrics EXCEPT !.storiesCompleted = @ + 1,
                            !.storiesPassed = IF event.payload.passes THEN @ + 1 ELSE @]
      [] OTHER -> metrics

\* the switch of calculateMetrics with a failure resetting the successes
MetricsStepResetting(metrics, event) ==
    CASE event.eventType = "iteration_end" ->
            [metrics EXCEPT !.totalIterations = @ + 1]
      [] event.eventType = "tokens_in" ->
            [metrics EXCEPT !.totalTokensIn = @ + event.payload.count]
      [] event.eventType = "tokens_out" ->
            [metrics EXCEPT !.totalTokensOut = @ + event.payload.count]
      [] event.eventType = "compilation_result" ->
            [metrics EXCEPT !.compilationAttempts = @ + 1,
                            !.compilationSuccesses =
                                IF event.payload.success THEN @ + 1 ELSE 0]
      [] event.eventType = "test_result" ->
            [metrics EXCEPT !.testAttempts = @ + 1,
                            !.testSuccesses = IF event.payload.success THEN @ + 1 ELSE 0]
      [] event.eventType = "story_complete" ->
            [metrics EXCEPT !.storiesCompleted = @ + 1,
                            !.storiesPassed = IF event.payload.passes THEN @ + 1 ELSE 0]
      [] OTHER -> metrics

\* the switch of calculateMetrics: what one event adds to the metrics
MetricsStep(metrics, event) ==
    CASE event.eventType = "iteration_end" ->
            [metrics EXCEPT !.totalIterations = @ + 1]
      [] event.eventType = "tokens_in" ->
            [metrics EXCEPT !.totalTokensIn = @ + event.payload.count]
      [] event.eventType = "tokens_out" ->
            [metrics EXCEPT !.totalTokensOut = @ + event.payload.count]
      [] event.eventType = "compilation_result" ->
            [metrics EXCEPT !.compilationAttempts = @ + 1,
                            !.compilationSuccesses =
                                IF event.payload.success THEN @ + 1 ELSE @]
      [] event.eventType = "test_result" ->
            [metrics EXCEPT !.testAttempts = @ + 1,
                            !.testSuccesses = IF event.payload.success THEN @ + 1 ELSE @]
      [] event.eventType = "story_complete" ->
            [metrics EXCEPT !.storiesCompleted = @ + 1,
                            !.storiesPassed = IF event.payload.passes THEN @ + 1 ELSE @]
      [] OTHER -> metrics

\* for (const event of session.events)
RECURSIVE MetricsLoop(_, _)
MetricsLoop(events, metrics) ==
    IF events = <<>> THEN metrics
    ELSE MetricsLoop(Tail(events), MetricsStep(metrics, Head(events)))

CalculateMetrics(session) == MetricsLoop(session.events, ZERO_METRICS)

GetMetrics(store, sessionId) ==
    LET sessionResult == GetSession(store, sessionId)
    IN  IF ~sessionResult.ok THEN sessionResult
        ELSE Ok(CalculateMetrics(sessionResult.value))

\* handleSessionStart replacing an existing session before it reports the error
HandleSessionStartResetting(event) ==
    /\ sessions' = MapSet(sessions, event.sessionId,
                        [metadata |-> [id |-> event.sessionId,
                                       status |-> "active",
                                       startedAt |-> event.timestamp],
                         events |-> <<event>>])
    /\ ret' = IF MapHas(sessions, event.sessionId)
              THEN Returned("emit", ErrOf("SESSION_ALREADY_EXISTS", event.sessionId))
              ELSE Returned("emit", Ok(event))

HandleSessionStart(event) ==
    IF MapHas(sessions, event.sessionId)
    THEN /\ ret' = Returned("emit", ErrOf("SESSION_ALREADY_EXISTS", event.sessionId))
         /\ UNCHANGED sessions
    ELSE LET metadata == [id |-> event.sessionId,
                          status |-> "active",
                          startedAt |-> event.timestamp]
             session ==
                [metadata |-> IF "tags" \in DOMAIN event.payload
                              THEN Spread(metadata, [tags |-> event.payload.tags])
                              ELSE metadata,
                 events |-> <<event>>]
         IN  /\ sessions' = MapSet(sessions, event.sessionId, session)
             /\ ret' = Returned("emit", Ok(event))

\* the session with its metadata closed by the event and the event appended
Ended(session, event) ==
    [metadata |-> Spread(session.metadata,
                         [status |-> IF event.payload.success THEN "completed" ELSE "failed",
                          endedAt |-> event.timestamp,
                          success |-> event.payload.success]),
     events |-> Append(session.events, event)]

\* handleSessionEnd without the check that the session is active
HandleSessionEndAnyStatus(event) ==
    IF ~MapHas(sessions, event.sessionId)
    THEN /\ ret' = Returned("emit", ErrOf("SESSION_NOT_FOUND", event.sessionId))
         /\ UNCHANGED sessions
    ELSE /\ sessions' = MapSet(sessions, event.sessionId,
                                Ended(MapGet(sessions, event.sessionId), event))
         /\ ret' = Returned("emit", Ok(event))

HandleSessionEnd(event) ==
    IF ~MapHas(sessions, event.sessionId)
    THEN /\ ret' = Returned("emit", ErrOf("SESSION_NOT_FOUND", event.sessionId))
         /\ UNCHANGED sessions
    ELSE LET session == MapGet(sessions, event.sessionId)
         IN  IF session.metadata.status # "active"
             THEN /\ ret' = Returned("emit", ErrOf("SESSION_NOT_ACTIVE", event.sessionId))
                  /\ UNCHANGED sessions
             ELSE /\ sessions' = MapSet(sessions, event.sessionId, Ended(session, event))
                  /\ ret' = Returned("emit", Ok(event))

\* handleEvent putting the event in front of the session's events
HandleEventPrepending(event) ==
    IF ~MapHas(sessions, event.sessionId)
    THEN /\ ret' = Returned("emit", ErrOf("SESSION_NOT_FOUND", event.sessionId))
         /\ UNCHANGED sessions
    ELSE LET session == MapGet(sessions, event.sessionId)
         IN  IF session.metadata.status # "active"
             THEN /\ ret' = Returned("emit", ErrOf("SESSION_NOT_ACTIVE", event.sessionId))
                  /\ UNCHANGED sessions
             ELSE /\ sessions' = MapSet(sessions, event.sessionId,
                                         [session EXCEPT !.events = <<event>> \o @])
                  /\ ret' = Returned("emit", Ok(event))

\* handleEvent without the check that the session is active
HandleEventAnyStatus(event) ==
    IF ~MapHas(sessions, event.sessionId)
    THEN /\ ret' = Returned("emit", ErrOf("SESSION_NOT_FOUND", event.sessionId))
         /\ UNCHANGED sessions
    ELSE LET session == MapGet(sessions, event.sessionId)
         IN  /\ sessions' = MapSet(sessions, event.sessionId,
                                    [session EXCEPT !.events = Append(@, event)])
             /\ ret' = Returned("emit", Ok(event))

HandleEvent(event) ==
    IF ~MapHas(sessions, event.sessionId)
    THEN /\ ret' = Returned("emit", ErrOf("SESSION_NOT_FOUND", event.sessionId))
         /\ UNCHANGED sessions
    ELSE LET session == MapGet(sessions, event.sessionId)
         IN  IF session.metadata.status # "active"
             THEN /\ ret' = Returned("emit", ErrOf("SESSION_NOT_ACTIVE", event.sessionId))
                  /\ UNCHANGED sessions
             ELSE /\ sessions' = MapSet(sessions, event.sessionId,
                                         [session EXCEPT !.events = Append(@, event)])
                  /\ ret' = Returned("emit", Ok(event))

Emit(data) ==
    /\ LET validationResult == SafeValidateEvent(data)
       IN  IF ~validationResult.ok
           THEN /\ ret' = Returned("emit", ErrOf("VALIDATION_ERROR", validationResult.message))
                /\ UNCHANGED sessions
           ELSE LET event == validationResult.value
                IN  CASE event.eventType = "session_start" -> HandleSessionStart(event)
                      [] event.eventType = "session_end" -> HandleSessionEnd(event)
                      [] OTHER -> HandleEvent(event)
    /\ UNCHANGED <<config, results, synthTrends>>

\* the events held by the collector, over all sessions
RECURSIVE CountEvents(_)
CountEvents(store) ==
    IF store = <<>> THEN 0
    ELSE Len(Head(store).value.events) + CountEvents(Tail(store))

----------------------------------------------------------------------------
(* The metrics calculator (src/core/metrics.ts); store = sessions,          *)
(* gateStore = results, cfg = config, trends = synthTrends                  *)

\* a CodebaseSnapshot, of which the calculator reads the totals
Snapshot(code, comments, blank) ==
    [totals |-> [total |-> code + comments + blank,
                 code |-> code,
                 comments |-> comments,
                 blank |-> blank]]

\* snapshots of an empty codebase, of one line and of three lines
Snapshots == {Snapshot(0, 0, 0), Snapshot(1, 0, 0), Snapshot(1, 1, 1)}

\* new Date(timestamp).getTime(), in milliseconds since 2026-01-30T00:00:00.000Z
GetTime(timestamp) ==
    CASE timestamp = "2026-01-30T12:00:00.000Z" -> 43200000
      [] timestamp = "2026-01-30T12:30:00.000Z" -> 45000000

\* values Date.now() may return
Clock == {GetTime(t) : t \in Timestamps}

\* endedAt is Undefined or Def(timestamp); now is what Date.now() returns
CalculateSessionDuration(startedAt, endedAt, now) ==
    LET start == GetTime(startedAt)
        end == IF endedAt # Undefined THEN GetTime(endedAt[1]) ELSE now
        durationMs == end - start
    IN  Quotient(Num(durationMs), Num(1000 * 60))

\* the gate figures with an overallPoE of 1 for a session without gate history
GateFiguresCertainError(gateStatsResult) ==
    IF gateStatsResult.ok
    THEN [verifiedLOC |-> gateStatsResult.value.verifiedLines,
          overallPoE |-> gateStatsResult.value.overallPoE]
    ELSE [verifiedLOC |-> 0, overallPoE |-> One]

\* verifiedLOC and overallPoE: 0 unless the tracker has statistics
GateFigures(gateStatsResult) ==
    IF gateStatsResult.ok
    THEN [verifiedLOC |-> gateStatsResult.value.verifiedLines,
          overallPoE |-> gateStatsResult.value.overallPoE]
    ELSE [verifiedLOC |-> 0, overallPoE |-> Zero]

\* the total of the input tokens only
TotalTokensInOnly(sessionMetrics) == sessionMetrics.totalTokensIn

TotalTokens(sessionMetrics) ==
    sessionMetrics.totalTokensIn + sessionMetrics.totalTokensOut

Calculate(store, gateStore, cfg, sessionId, codebaseSnapshot, now) ==
    LET sessionResult == GetSession(store, sessionId)
        metricsResult == GetMetrics(store, sessionId)
    IN  IF ~sessionResult.ok THEN ErrOf("SESSION_NOT_FOUND", sessionId)
        ELSE IF ~metricsResult.ok THEN ErrOf("SESSION_NOT_FOUND", sessionId)
        ELSE LET session == sessionResult.value
                 sessionMetrics == metricsResult.value
                 gate == GateFigures(GetSessionStats(gateStore, cfg, sessionId))
                 verifiedLOC == gate.verifiedLOC
                 totalLOC == codebaseSnapshot.totals.total
             IN  IF totalLOC = 0 THEN Err("NO_LOC_DATA")
                 ELSE LET verificationRate ==
                            IF totalLOC > 0 THEN Quotient(Num(verifiedLOC), Num(totalLOC))
                            ELSE Zero
                          totalMinutes ==
                            CalculateSessionDuration(
                                session.metadata.startedAt,
                                IF "endedAt" \in DOMAIN session.metadata
                                THEN Def(session.metadata.endedAt) ELSE Undefined,
                                now)
                          locPerMinute ==
                            IF FracLt(Zero, totalMinutes)
                            THEN Quotient(Num(totalLOC), totalMinutes) ELSE Zero
                          vlocPerMinute ==
                            IF FracLt(Zero, totalMinutes)
                            THEN Quotient(Num(verifiedLOC), totalMinutes) ELSE Zero
                          totalTokens == TotalTokens(sessionMetrics)
                          tokensPerLOC ==
                            IF totalLOC > 0 THEN Quotient(Num(totalTokens), Num(totalLOC))
                            ELSE Zero
                      IN  Ok([verifiedLOC |-> verifiedLOC,
                              totalLOC |-> totalLOC,
                              verificationRate |-> verificationRate,
                              locPerMinute |-> locPerMinute,
                              vlocPerMinute |-> vlocPerMinute,
                              tokensPerLOC |-> tokensPerLOC,
                              poeLOC |-> gate.overallPoE,
                              totalMinutes |-> totalMinutes,
                              totalTokens |-> totalTokens,
                              codeLines |-> codebaseSnapshot.totals.code,
                              commentLines |-> codebaseSnapshot.totals.comments,
                              blankLines |-> codebaseSnapshot.totals.blank])

\* this.synthTrends.get(sessionId) ?? []
GetSynthTrend(trends, sessionId) ==
    IF MapHas(trends, sessionId) THEN MapGet(trends, sessionId) ELSE <<>>

\* the synth of the first measurement as the previous synth
PreviousSynthOfFirst(existing) ==
    IF Len(existing) > 0 THEN existing[1].synth ELSE Zero

\* the previous synth taken as 0 at every measurement
PreviousSynthZero(existing) == Zero

\* the synth of the last measurement, 0 before the first
PreviousSynth(existing) ==
    IF Len(existing) > 0 THEN existing[Len(existing)].synth ELSE Zero

\* the stored array holding the latest point only
StoredLatestOnly(existing, point) == <<point>>

\* existing.push(point), or a new array for the first point
Stored(existing, point) ==
    IF Len(existing) > 0 THEN Append(existing, point) ELSE <<point>>

RecordSynthMeasurement(sessionId, storyId, codebaseSnapshot) ==
    /\ LET metricsResult == GetMetrics(sessions, sessionId)
       IN  IF ~metricsResult.ok
           THEN /\ ret' = Returned("recordSynthMeasurement",
                                   ErrOf("SESSION_NOT_FOUND", sessionId))
                /\ UNCHANGED synthTrends
           ELSE LET totalTokens == TotalTokens(metricsResult.value)
                    loc == codebaseSnapshot.totals.total
                IN  IF loc = 0
                    THEN /\ ret' = Returned("recordSynthMeasurement",
                                            Err("NO_LOC_DATA"))
                         /\ UNCHANGED synthTrends
                    ELSE LET synth == Quotient(Num(totalTokens), Num(loc))
                             existing == GetSynthTrend(synthTrends, sessionId)
                             synthDelta == Difference(synth, PreviousSynth(existing))
                             point == [storyId |-> storyId,
                                       cumulativeTokens |-> totalTokens,
                                       loc |-> loc,
                                       synth |-> synth,
                                       synthDelta |-> synthDelta]
                         IN  /\ synthTrends' = MapSet(synthTrends, sessionId,
                                                      Stored(existing, point))
                             /\ ret' = Returned("recordSynthMeasurement", Ok(point))
    /\ UNCHANGED <<config, results, sessions>>

\* getConfig: a copy of the configuration
GetConfig(cfg) == [g \in DOMAIN cfg |-> cfg[g]]

\* a value that may be null: Null, or NonNull(value)
Null == <<>>
NonNull(value) == <<value>>

\* getReport answering without the trend of the session
GetReportWithoutTrend(store, gateStore, cfg, trends, sessionId, codebaseSnapshot, now) ==
    LET metricsResult == Calculate(store, gateStore, cfg, sessionId, codebaseSnapshot, now)
    IN  IF ~metricsResult.ok THEN metricsResult
        ELSE LET gateStatsResult == GetSessionStats(gateStore, cfg, sessionId)
                 sessionMetricsResult == GetMetrics(store, sessionId)
             IN  Ok([metrics |-> metricsResult.value,
                     synthTrend |-> <<>>,
                     locBreakdown |-> codebaseSnapshot.totals,
                     gateStats |-> IF gateStatsResult.ok
                                   THEN NonNull(gateStatsResult.value) ELSE Null,
                     sessionMetrics |-> IF sessionMetricsResult.ok
                                        THEN NonNull(sessionMetricsResult.value) ELSE Null])

GetReport(store, gateStore, cfg, trends, sessionId, codebaseSnapshot, now) ==
    LET metricsResult == Calculate(store, gateStore, cfg, sessionId, codebaseSnapshot, now)
    IN  IF ~metricsResult.ok THEN metricsResult
        ELSE LET gateStatsResult == GetSessionStats(gateStore, cfg, sessionId)
                 sessionMetricsResult == GetMetrics(store, sessionId)
             IN  Ok([metrics |-> metricsResult.value,
                     synthTrend |-> GetSynthTrend(trends, sessionId),
                     locBreakdown |-> codebaseSnapshot.totals,
                     gateStats |-> IF gateStatsResult.ok
                                   THEN NonNull(gateStatsResult.value) ELSE Null,
                     sessionMetrics |-> IF sessionMetricsResult.ok
                                        THEN NonNull(sessionMetricsResult.value) ELSE Null])

\* String(n) for an integer
StringOf(n) == IF n < 0 THEN <<"-">> \o ToStr(0 - n) ELSE ToStr(n)

RECURSIVE Pow10(_)
Pow10(n) == IF n = 0 THEN 1 ELSE 10 * Pow10(n - 1)

RECURSIVE Spaces(_)
Spaces(n) == IF n <= 0 THEN <<>> ELSE <<" ">> \o Spaces(n - 1)

\* str.padStart(n) and str.padEnd(n)
PadStart(str, n) == Spaces(n - Len(str)) \o str
PadEnd(str, n) == str \o Spaces(n - Len(str))

\* the digits of n, at least width of them
ZeroPadded(n, width) ==
    LET digits == ToStr(n)
    IN  [i \in 1..(width - Len(digits)) |-> "0"] \o digits

\* value.toFixed(decimals): the nearest number with that many decimals, the
\* larger of two that are equally near
ToFixed(value, decimals) ==
    LET scale == Pow10(decimals)
        n == (2 * Abs(value[1]) * scale + value[2]) \div (2 * value[2])
        digits == IF decimals = 0 THEN ToStr(n)
                  ELSE ToStr(n \div scale) \o <<".">> \o ZeroPadded(n % scale, decimals)
    IN  IF value = NaN THEN <<"N", "a", "N">>
        ELSE IF value[1] < 0 THEN <<"-">> \o digits ELSE digits

\* x * y as the code computes it
Product(x, y) == Fl(FracMul(x, y))

\* Math.round and Math.floor
Round(x) == (2 * x[1] + x[2]) \div (2 * x[2])
Floor(x) == x[1] \div x[2]

FormatNumber(value, decimals) == ToFixed(value, decimals)

FormatPercent(value) == ToFixed(Product(value, Num(100)), 1) \o <<"%">>

FormatDuration(minutes) ==
    IF FracLt(minutes, One)
    THEN StringOf(Round(Product(minutes, Num(60)))) \o <<"s">>
    ELSE IF FracLt(minutes, Num(60))
    THEN ToFixed(minutes, 1) \o <<"m">>
    ELSE LET hours == Floor(Quotient(minutes, Num(60)))
             mins == Round(FracSub(minutes, Num(60 * Floor(FracDiv(minutes, Num(60))))))
         IN  StringOf(hours) \o <<"h", " ">> \o StringOf(mins) \o <<"m">>

\* a line of the report: its fixed text, with {} where the formatted values go
Line(text, values) == [text |-> text, values |-> values]

RULE == Line("============================================================", <<>>)
TOP == Line(".-------------------------------------------------------------.", <<>>)
SEPARATOR == Line("|-------------------------------------------------------------|", <<>>)
BOTTOM == Line("'-------------------------------------------------------------'", <<>>)
EMPTY == Line("", <<>>)

\* the three lines that open a section
Header(title) == <<TOP, Line(title, <<>>), SEPARATOR>>

HEADLINE_METRICS == "| HEADLINE METRICS |"
EFFICIENCY_METRICS == "| EFFICIENCY METRICS |"
LOC_BREAKDOWN == "| LOC BREAKDOWN |"
GATE_VERIFICATION == "| GATE VERIFICATION |"
SYNTH_TREND == "| SYNTH TREND |"
SESSION_METRICS == "| SESSION METRICS |"

\* the line of a gate in the GATE VERIFICATION section
GateLine(text, stats) ==
    Line(text, <<PadStart(StringOf(stats.linesPassed), 6),
                 PadEnd(StringOf(stats.linesChecked), 6),
                 PadStart(FormatPercent(stats.passRate), 7)>>)

\* the line of a point in the SYNTH TREND section; the story id, which the
\* code pads to 12 characters, is kept as it is
TrendLine(point) ==
    LET delta == IF ~FracLt(point.synthDelta, Zero)
                 THEN <<"+">> \o FormatNumber(point.synthDelta, 2)
                 ELSE FormatNumber(point.synthDelta, 2)
    IN  Line("| {} Synth: {} ({}) |",
             <<point.storyId, PadStart(FormatNumber(point.synth, 2), 8), PadStart(delta, 8)>>)

\* the GATE VERIFICATION section
GateSection(gs) ==
    Header(GATE_VERIFICATION)
    \o <<GateLine("| G1 (Compile): {}/{} ({}) |", gs.perGate["G1_COMPILE"]),
         GateLine("| G2 (Correct): {}/{} ({}) |", gs.perGate["G2_CORRECT"]),
         GateLine("| G3 (Reach): {}/{} ({}) |", gs.perGate["G3_REACHABLE"]),
         SEPARATOR,
         Line("| Overall PoE: {} |", <<PadStart(FormatPercent(gs.overallPoE), 12)>>),
         BOTTOM, EMPTY>>

\* the SYNTH TREND section
TrendSection(synthTrend) ==
    Header(SYNTH_TREND)
    \o [i \in 1..Len(synthTrend) |-> TrendLine(synthTrend[i])]
    \o <<BOTTOM, EMPTY>>

\* the SESSION METRICS section
SessionSection(sm) ==
    Header(SESSION_METRICS)
    \o <<Line("| Iterations: {} |", <<PadStart(StringOf(sm.totalIterations), 12)>>),
         Line("| Compilations: {} / {} |",
              <<PadStart(StringOf(sm.compilationSuccesses), 12),
                PadEnd(StringOf(sm.compilationAttempts), 12)>>),
         Line("| Test Runs: {} / {} |",
              <<PadStart(StringOf(sm.testSuccesses), 12),
                PadEnd(StringOf(sm.testAttempts), 12)>>),
         Line("| Stories: {} / {} |",
              <<PadStart(StringOf(sm.storiesPassed), 12),
                PadEnd(StringOf(sm.storiesCompleted), 12)>>),
         BOTTOM>>

\* the sections every report has
FixedSections(m) ==
    <<RULE, Line("RALPHMETER METRICS REPORT", <<>>), RULE, EMPTY>>
    \o Header(HEADLINE_METRICS)
    \o <<Line("| Synth (Tokens/LOC): {} |", <<PadStart(FormatNumber(m.tokensPerLOC, 2), 12)>>),
         Line("| Verified LOC: {} / {} |",
              <<PadStart(StringOf(m.verifiedLOC), 12), PadEnd(StringOf(m.totalLOC), 12)>>),
         Line("| Verification Rate: {} |", <<PadStart(FormatPercent(m.verificationRate), 12)>>),
         Line("| PoE-LOC: {} |", <<PadStart(FormatPercent(m.poeLOC), 12)>>),
         BOTTOM, EMPTY>>
    \o Header(EFFICIENCY_METRICS)
    \o <<Line("| Total Duration: {} |", <<PadStart(FormatDuration(m.totalMinutes), 12)>>),
         Line("| LOC / Minute: {} |", <<PadStart(FormatNumber(m.locPerMinute, 2), 12)>>),
         Line("| vLOC / Minute: {} |", <<PadStart(FormatNumber(m.vlocPerMinute, 2), 12)>>),
         Line("| Total Tokens: {} |", <<PadStart(FormatNumber(Num(m.totalTokens), 0), 12)>>),
         BOTTOM, EMPTY>>
    \o Header(LOC_BREAKDOWN)
    \o <<Line("| Total Lines: {} |", <<PadStart(StringOf(m.totalLOC), 12)>>),
         Line("| Code Lines: {} |", <<PadStart(StringOf(m.codeLines), 12)>>),
         Line("| Comment Lines: {} |", <<PadStart(StringOf(m.commentLines), 12)>>),
         Line("| Blank Lines: {} |", <<PadStart(StringOf(m.blankLines), 12)>>),
         BOTTOM, EMPTY>>

\* the lines of a report
ReportLines(report) ==
    FixedSections(report.metrics)
    \o (IF report.gateStats # Null THEN GateSection(report.gateStats[1]) ELSE <<>>)
    \o (IF Len(report.synthTrend) > 0 THEN TrendSection(report.synthTrend) ELSE <<>>)
    \o (IF report.sessionMetrics # Null
        THEN SessionSection(report.sessionMetrics[1]) ELSE <<>>)
    \o <<EMPTY, RULE>>

\* the value is the array lines, which the code joins with line feeds;
\* reportResult is computed once
FormatReport(store, gateStore, cfg, trends, sessionId, codebaseSnapshot, now) ==
    CHOOSE result \in
        {IF ~reportResult.ok THEN reportResult ELSE Ok(ReportLines(reportResult.value)) :
            reportResult \in
                {GetReport(store, gateStore, cfg, trends, sessionId, codebaseSnapshot, now)}} :
        TRUE

\* the trend points held by the calculator, over all sessions
RECURSIVE CountPoints(_)
CountPoints(trends) ==
    IF trends = <<>> THEN 0
    ELSE Len(Head(trends).value) + CountPoints(Tail(trends))

----------------------------------------------------------------------------
(* LOC counter.  Contents and lines are sequences of characters.           *)

LF == "\n"
CR == "\r"

\* characters that String.prototype.trim removes
WhiteSpace == {" ", "\t", LF, CR}

RECURSIVE TrimStart(_)
TrimStart(str) ==
    IF str # <<>> /\ Head(str) \in WhiteSpace THEN TrimStart(Tail(str)) ELSE str

RECURSIVE TrimEnd(_)
TrimEnd(str) ==
    IF str # <<>> /\ str[Len(str)] \in WhiteSpace
    THEN TrimEnd(SubSeq(str, 1, Len(str) - 1)) ELSE str

\* str.trim()
Trim(str) == TrimEnd(TrimStart(str))

\* str.indexOf(token): the first position of token, counted from 0, or -1
IndexOf(str, token) ==
    LET at == {i \in 0..(Len(str) - Len(token)) :
                   SubSeq(str, i + 1, i + Len(token)) = token}
    IN  IF at = {} THEN -1 ELSE CHOOSE i \in at : \A j \in at : i <= j

\* str.includes(token)
StrIncludes(str, token) == IndexOf(str, token) # -1

\* str.substring(start) and str.substring(start, end)
Substring(str, start) == SubSeq(str, start + 1, Len(str))
SubstringTo(str, start, end) == SubSeq(str, start + 1, end)

\* split that takes a carriage return on its own for a separator too
RECURSIVE SplitAtCarriageReturns(_)
SplitAtCarriageReturns(content) ==
    LET at == {i \in 1..Len(content) : content[i] \in {LF, CR}}
    IN  IF at = {} THEN <<content>>
        ELSE LET first == CHOOSE i \in at : \A j \in at : i <= j
                 next == IF /\ content[first] = CR
                            /\ first < Len(content)
                            /\ content[first + 1] = LF
                         THEN first + 1 ELSE first
             IN  <<SubSeq(content, 1, first - 1)>>
                 \o SplitAtCarriageReturns(Substring(content, next))

\* content.split(/\r?\n/)
RECURSIVE Split(_)
Split(content) ==
    LET lf == IndexOf(content, <<LF>>)
    IN  IF lf = -1 THEN <<content>>
        ELSE LET end == IF lf > 0 /\ content[lf] = CR THEN lf - 1 ELSE lf
             IN  <<SubSeq(content, 1, end)>> \o Split(Substring(content, lf + 1))

Languages == {"typescript", "javascript", "python", "unknown"}

COMMENT_STYLES ==
    [language \in Languages |->
        CASE language \in {"typescript", "javascript"} ->
                 [lineComment |-> <<"/", "/">>,
                  blockStart |-> <<"/", "*">>,
                  blockEnd |-> <<"*", "/">>]
          [] language = "python" ->
                 [lineComment |-> <<"#">>,
                  blockStart |-> <<"\"", "\"", "\"">>,
                  blockEnd |-> <<"\"", "\"", "\"">>]
          [] language = "unknown" ->
                 [lineComment |-> Null, blockStart |-> Null, blockEnd |-> Null]]

\* what the loop does with a line: the counter it increments and the value
\* inBlockComment has afterwards
Counted(counter, inBlockComment) ==
    [counter |-> counter, inBlockComment |-> inBlockComment]

\* a line that holds the block start, read outside a block comment
StartsBlock(trimmed, style) ==
    LET startIdx == IndexOf(trimmed, style.blockStart)
        afterStart == Substring(trimmed, startIdx + Len(style.blockStart))
        beforeComment == Trim(SubstringTo(trimmed, 0, startIdx))
    IN  IF StrIncludes(afterStart, style.blockEnd)
        THEN LET endIdx == IndexOf(afterStart, style.blockEnd)
                 afterComment ==
                     Trim(Substring(afterStart, endIdx + Len(style.blockEnd)))
             IN  IF beforeComment # <<>> \/ afterComment # <<>>
                 THEN Counted("code", FALSE)
                 ELSE Counted("comments", FALSE)
        ELSE IF beforeComment # <<>>
             THEN Counted("code", TRUE)
             ELSE Counted("comments", TRUE)

\* a line read inside a block comment
InsideBlock(trimmed, style) ==
    IF StrIncludes(trimmed, style.blockEnd)
    THEN LET endIdx == IndexOf(trimmed, style.blockEnd)
             afterEnd == Trim(Substring(trimmed, endIdx + Len(style.blockEnd)))
         IN  IF afterEnd # <<>> /\ ~StartsWith(afterEnd, style.lineComment)
             THEN Counted("code", FALSE)
             ELSE Counted("comments", FALSE)
    ELSE Counted("comments", TRUE)

\* a line that neither starts a block comment nor lies in one
OutsideBlock(trimmed, style, inBlockComment) ==
    IF style.lineComment # Null /\ StartsWith(trimmed, style.lineComment)
    THEN Counted("comments", inBlockComment)
    ELSE Counted("code", inBlockComment)

\* the loop body with the test for a line comment made first
CountLineCommentFirst(line, style, inBlockComment) ==
    LET trimmed == Trim(line)
        blocks == style.blockStart # Null /\ style.blockEnd # Null
    IN  IF trimmed = <<>> THEN Counted("blank", inBlockComment)
        ELSE IF /\ ~inBlockComment
                /\ style.lineComment # Null
                /\ StartsWith(trimmed, style.lineComment)
        THEN Counted("comments", inBlockComment)
        ELSE IF blocks /\ ~inBlockComment /\ StrIncludes(trimmed, style.blockStart)
        THEN StartsBlock(trimmed, style)
        ELSE IF blocks /\ inBlockComment
        THEN InsideBlock(trimmed, style)
        ELSE OutsideBlock(trimmed, style, inBlockComment)

\* the loop body
CountLine(line, style, inBlockComment) ==
    LET trimmed == Trim(line)
        blocks == style.blockStart # Null /\ style.blockEnd # Null
    IN  IF trimmed = <<>> THEN Counted("blank", inBlockComment)
        ELSE IF blocks /\ ~inBlockComment /\ StrIncludes(trimmed, style.blockStart)
        THEN StartsBlock(trimmed, style)
        ELSE IF blocks /\ inBlockComment
        THEN InsideBlock(trimmed, style)
        ELSE OutsideBlock(trimmed, style, inBlockComment)

\* the counters and inBlockComment after the first n lines
RECURSIVE Loop(_, _, _)
Loop(lines, style, n) ==
    IF n = 0
    THEN [code |-> 0, comments |-> 0, blank |-> 0, inBlockComment |-> FALSE]
    ELSE LET before == Loop(lines, style, n - 1)
             counted == CountLine(lines[n], style, before.inBlockComment)
             Plus(counter) ==
                 IF counted.counter = counter
                 THEN before[counter] + 1 ELSE before[counter]
         IN  [code |-> Plus("code"), comments |-> Plus("comments"),
              blank |-> Plus("blank"), inBlockComment |-> counted.inBlockComment]

CountLines(content, language) ==
    LET lines == Split(content)
        style == COMMENT_STYLES[language]
        final == Loop(lines, style, Len(lines))
    IN  [total |-> Len(lines), code |-> final.code,
         comments |-> final.comments, blank |-> final.blank]

\* the upper-case letters and, at the same positions, the lower-case ones
UpperCase ==
    <<"A", "B", "C", "D", "E", "F", "G", "H", "I", "J", "K", "L", "M",
      "N", "O", "P", "Q", "R", "S", "T", "U", "V", "W", "X", "Y", "Z">>
LowerCase ==
    <<"a", "b", "c", "d", "e", "f", "g", "h", "i", "j", "k", "l", "m",
      "n", "o", "p", "q", "r", "s", "t", "u", "v", "w", "x", "y", "z">>

\* str.toLowerCase()
ToLowerCase(str) ==
    [i \in 1..Len(str) |->
        IF \E k \in 1..26 : UpperCase[k] = str[i]
        THEN LowerCase[CHOOSE k \in 1..26 : UpperCase[k] = str[i]]
        ELSE str[i]]

\* the last position of the character in str, counted from 1, or 0
LastIndexOf(str, char) ==
    LET at == {i \in 1..Len(str) : str[i] = char}
    IN  IF at = {} THEN 0 ELSE CHOOSE i \in at : \A j \in at : j <= i

\* path.extname: from the last dot of the last segment on; nothing when the
\* segment has no dot or only starts with one
ExtName(filePath) ==
    LET base == Substring(filePath, LastIndexOf(filePath, "/"))
        dot == LastIndexOf(base, ".")
    IN  IF dot <= 1 THEN <<>> ELSE Substring(base, dot - 1)

\* path.join(dirPath, name)
Join(dirPath, name) == dirPath \o <<"/">> \o name

EXTENSION_MAP ==
    <<[key |-> <<".", "t", "s">>, value |-> "typescript"],
      [key |-> <<".", "t", "s", "x">>, value |-> "typescript"],
      [key |-> <<".", "m", "t", "s">>, value |-> "typescript"],
      [key |-> <<".", "c", "t", "s">>, value |-> "typescript"],
      [key |-> <<".", "j", "s">>, value |-> "javascript"],
      [key |-> <<".", "j", "s", "x">>, value |-> "javascript"],
      [key |-> <<".", "m", "j", "s">>, value |-> "javascript"],
      [key |-> <<".", "c", "j", "s">>, value |-> "javascript"],
      [key |-> <<".", "p", "y">>, value |-> "python"],
      [key |-> <<".", "p", "y", "w">>, value |-> "python"]>>

DetectLanguage(filePath) ==
    LET ext == ToLowerCase(ExtName(filePath))
    IN  IF MapHas(EXTENSION_MAP, ext) THEN MapGet(EXTENSION_MAP, ext) ELSE "unknown"

CountFile(filePath, content) ==
    LET language == DetectLanguage(filePath)
        result == CountLines(content, language)
    IN  [total |-> result.total, code |-> result.code,
         comments |-> result.comments, blank |-> result.blank,
         path |-> filePath, language |-> language]

EmptyResult == [total |-> 0, code |-> 0, comments |-> 0, blank |-> 0]

\* acc + result, counter by counter
Accumulate(acc, result) ==
    [total |-> acc.total + result.total, code |-> acc.code + result.code,
     comments |-> acc.comments + result.comments, blank |-> acc.blank + result.blank]

RECURSIVE Aggregate(_)
Aggregate(fileResults) ==
    IF fileResults = <<>> THEN EmptyResult
    ELSE Accumulate(Aggregate(SubSeq(fileResults, 1, Len(fileResults) - 1)),
                    fileResults[Len(fileResults)])

SKIP_DIRECTORIES ==
    {<<"n", "o", "d", "e", "_", "m", "o", "d", "u", "l", "e", "s">>,
     <<".", "g", "i", "t">>,
     <<".", "s", "v", "n">>,
     <<".", "h", "g">>,
     <<"d", "i", "s", "t">>,
     <<"b", "u", "i", "l", "d">>,
     <<"c", "o", "v", "e", "r", "a", "g", "e">>,
     <<"_", "_", "p", "y", "c", "a", "c", "h", "e", "_", "_">>,
     <<".", "p", "y", "t", "e", "s", "t", "_", "c", "a", "c", "h", "e">>,
     <<".", "m", "y", "p", "y", "_", "c", "a", "c", "h", "e">>,
     <<"v", "e", "n", "v">>,
     <<".", "v", "e", "n", "v">>,
     <<"e", "n", "v">>,
     <<".", "e", "n", "v">>,
     <<".", "t", "o", "x">>,
     <<".", "e", "g", "g", "s">>}

INCLUDE_EXTENSIONS == {EXTENSION_MAP[i].key : i \in 1..Len(EXTENSION_MAP)}

(* The file system: an entry of a directory has a name and a kind,         *)
(* "directory", "file" or "other" (a link, a socket); readable tells       *)
(* whether a directory can be listed or a file read; entries are those of  *)
(* a directory, in the order readdirSync gives them, and content is that   *)
(* of a file.                                                              *)
DirEntry(name, kind, readable, content, entries) ==
    [name |-> name, kind |-> kind, readable |-> readable,
     content |-> content, entries |-> entries]

\* scan that compares the path of a directory with the names to skip
RECURSIVE ScanSkippingPaths(_, _)
ScanSkippingPaths(dirPath, dir) ==
    LET Found(entry) ==
            LET fullPath == Join(dirPath, entry.name)
            IN  IF entry.kind = "directory"
                THEN IF fullPath \notin SKIP_DIRECTORIES
                     THEN ScanSkippingPaths(fullPath, entry) ELSE <<>>
                ELSE IF entry.kind = "file"
                THEN IF ToLowerCase(ExtName(entry.name)) \in INCLUDE_EXTENSIONS
                     THEN <<[path |-> fullPath, file |-> entry]>> ELSE <<>>
                ELSE <<>>
        RECURSIVE Entries(_)
        Entries(n) ==
            IF n = 0 THEN <<>> ELSE Entries(n - 1) \o Found(dir.entries[n])
    IN  IF ~dir.readable THEN <<>> ELSE Entries(Len(dir.entries))

\* scan of findCodeFiles: the files found in the directory and below it,
\* each with its full path
RECURSIVE Scan(_, _)
Scan(dirPath, dir) ==
    LET Found(entry) ==
            LET fullPath == Join(dirPath, entry.name)
            IN  IF entry.kind = "directory"
                THEN IF entry.name \notin SKIP_DIRECTORIES
                     THEN Scan(fullPath, entry) ELSE <<>>
                ELSE IF entry.kind = "file"
                THEN IF ToLowerCase(ExtName(entry.name)) \in INCLUDE_EXTENSIONS
                     THEN <<[path |-> fullPath, file |-> entry]>> ELSE <<>>
                ELSE <<>>
        RECURSIVE Entries(_)
        Entries(n) ==
            IF n = 0 THEN <<>> ELSE Entries(n - 1) \o Found(dir.entries[n])
    IN  IF ~dir.readable THEN <<>> ELSE Entries(Len(dir.entries))

FindCodeFiles(rootPath, root) == Scan(rootPath, root)

\* the results of the files that can be read, in the order found
RECURSIVE FileResults(_)
FileResults(files) ==
    IF files = <<>> THEN <<>>
    ELSE LET last == files[Len(files)]
             before == FileResults(SubSeq(files, 1, Len(files) - 1))
         IN  IF last.file.readable
             THEN Append(before, CountFile(last.path, last.file.content))
             ELSE before

\* the snapshot without its timestamp; rootPath is absolute
SnapshotCodebase(rootPath, root) ==
    LET fileResults == FileResults(FindCodeFiles(rootPath, root))
    IN  [rootPath |-> rootPath,
         totals |-> Aggregate(fileResults),
         files |-> fileResults,
         byLanguage |->
             [language \in Languages |->
                 Aggregate(SelectSeq(fileResults,
                                     LAMBDA result : result.language = language))]]

----------------------------------------------------------------------------
(* The tracker and the collector as a state machine *)

Init ==
    /\ config = DEFAULT_GATE_CONFIG
    /\ results = <<>>
    /\ ret = Returned("none", Ok(<<>>))
    /\ sessions = <<>>
    /\ synthTrends = <<>>

\* record with any session, gate kind (recognized or not), file and line results
RecordStep ==
    /\ TotalRecords < MaxRecords
    /\ \E lineResults \in {l \in LineResultLists : HasRoom(l)} :
        \E sessionId \in SessionIds, gate \in GateInputs, filePath \in FilePaths :
            Record(sessionId, [gate |-> gate, filePath |-> filePath, lineResults |-> lineResults])

\* setConfig with any patch
SetConfigStep == \E patch \in ConfigPatches : SetConfig(patch)

\* emit with any data, as long as the collector holds at most MaxEvents events
EmitStep ==
    \E data \in EmitInputs :
        /\ Emit(data)
        /\ CountEvents(sessions') <= MaxEvents

\* recordSynthMeasurement for any session with any snapshot, as long as the
\* calculator holds at most MaxMeasurements trend points
MeasureStep ==
    \E sessionId \in SessionIds, codebaseSnapshot \in Snapshots :
        /\ RecordSynthMeasurement(sessionId, "US-1", codebaseSnapshot)
        /\ CountPoints(synthTrends') <= MaxMeasurements

Next == RecordStep \/ SetConfigStep \/ EmitStep \/ MeasureStep

\* the tracker, the collector and the calculator together; the specifications
\* below are the parts of it that are explored exhaustively
Spec == Init /\ [][Next]_vars

\* a tracker constructed with the default policy that only records
NextRecord == RecordStep

SpecRecord == Init /\ [][NextRecord]_vars

\* record of one observation of one line of one file of one session
ObserveStep ==
    /\ TotalRecords < MaxRecords
    /\ HasRoom(<<[lineNumber |-> 1, passed |-> TRUE]>>)
    /\ \E gate \in Gates, lr \in LineResult :
        Record(PolicySession, [gate |-> gate, filePath |-> PolicyFile, lineResults |-> <<lr>>])

\* setConfig of one flag of one gate
SetFlagStep == \E patch \in FlagPatches : SetConfig(patch)

NextPolicy == ObserveStep \/ SetFlagStep

\* a tracker whose policy is changed while single observations arrive
SpecPolicy == Init /\ [][NextPolicy]_vars

\* record of one observation of line 1 while thresholds are being set
ThresholdObserveStep ==
    /\ TotalRecords < MaxThresholdRecords
    /\ \E gate \in Gates, passed \in BOOLEAN :
        Record(PolicySession, [gate |-> gate, filePath |-> PolicyFile,
                               lineResults |-> <<[lineNumber |-> 1, passed |-> passed]>>])

\* setConfig with a patch that may supply thresholds
SetThresholdStep == \E patch \in ThresholdPatches : SetConfig(patch)

NextThreshold == ThresholdObserveStep \/ SetThresholdStep

\* a tracker whose thresholds and flags are set while single observations arrive
SpecThreshold == Init /\ [][NextThreshold]_vars

\* record of one observation for any session and file
SessionRecordStep ==
    /\ TotalRecords < MaxRecords
    /\ HasRoom(<<[lineNumber |-> 1, passed |-> TRUE]>>)
    /\ \E sessionId \in SessionIds, gate \in Gates, filePath \in FilePaths, lr \in LineResult :
        Record(sessionId, [gate |-> gate, filePath |-> filePath, lineResults |-> <<lr>>])

NextSessions == SessionRecordStep

\* a tracker with the default policy that records single observations for
\* two sessions
SpecSessions == Init /\ [][NextSessions]_vars

NextCollector == EmitStep

\* a collector that receives events
SpecCollector == Init /\ [][NextCollector]_vars

\* the events a metered session is made of: its start, its tokens, its
\* successful end
MeteringEvents ==
    {e \in ValidEvents :
        \/ e.eventType \in {"session_start", "tokens_in", "tokens_out"}
        \/ e.eventType = "session_end" /\ e.payload.success}

\* the metering events of one session and the start of the others
CalcEvents ==
    {e \in MeteringEvents :
        \/ e.sessionId = PolicySession
        \/ e.eventType = "session_start" /\ e.timestamp = FirstTimestamp}

\* emit of a session's start, tokens or end
CalcEmitStep ==
    \E data \in CalcEvents :
        /\ Emit(data)
        /\ CountEvents(sessions') <= MaxEvents

\* line results of a gate run that fails line 1, or passes lines 1 and 2
CalcLineResults ==
    {<<[lineNumber |-> 1, passed |-> FALSE]>>,
     <<[lineNumber |-> 1, passed |-> TRUE], [lineNumber |-> 2, passed |-> TRUE]>>}

\* record of a gate run over one file of one session
CalcRecordStep ==
    /\ TotalRecords < MaxRecords
    /\ \E gate \in Gates, lineResults \in CalcLineResults :
        Record(PolicySession, [gate |-> gate, filePath |-> PolicyFile,
                               lineResults |-> lineResults])

NextCalculate == CalcEmitStep \/ CalcRecordStep

\* a collector and a tracker with the default policy, as read by calculate
SpecCalculate == Init /\ [][NextCalculate]_vars

\* the events of sessions that start at the same time
TrendEvents == {e \in MeteringEvents : e.timestamp = FirstTimestamp}

\* emit of a session's start, tokens or end
TrendEmitStep ==
    \E data \in TrendEvents :
        /\ Emit(data)
        /\ CountEvents(sessions') <= MaxEvents

NextTrend == TrendEmitStep \/ MeasureStep

\* a collector that receives tokens while Synth measurements are recorded
SpecTrend == Init /\ [][NextTrend]_vars

\* a passing G1 run over line 1 of one file
StoreResult ==
    [gate |-> "G1_COMPILE", filePath |-> PolicyFile,
     lineResults |-> <<[lineNumber |-> 1, passed |-> TRUE]>>]

\* record of that run for any session
StoreRecordStep ==
    /\ TotalRecords < MaxStoreRecords
    /\ \E sessionId \in SessionIds : Record(sessionId, StoreResult)

\* recordSynthMeasurement for any session with any snapshot
StoreMeasureStep ==
    \E sessionId \in SessionIds, codebaseSnapshot \in Snapshots :
        /\ RecordSynthMeasurement(sessionId, "US-1", codebaseSnapshot)
        /\ CountPoints(synthTrends') <= MaxStoreMeasurements

NextStores == TrendEmitStep \/ StoreRecordStep \/ StoreMeasureStep

\* the collector, the tracker and the calculator used side by side
SpecStores == Init /\ [][NextStores]_vars

\* emit of a session's start, tokens or end
ReportEmitStep ==
    \E data \in TrendEvents :
        /\ Emit(data)
        /\ CountEvents(sessions') <= MaxReportEvents

ReportRecordStep ==
    /\ TotalRecords < MaxReportRecords
    /\ \E sessionId \in SessionIds : Record(sessionId, StoreResult)

ReportMeasureStep ==
    \E sessionId \in SessionIds, codebaseSnapshot \in Snapshots :
        /\ RecordSynthMeasurement(sessionId, "US-1", codebaseSnapshot)
        /\ CountPoints(synthTrends') <= MaxReportMeasurements

NextReport == ReportEmitStep \/ ReportRecordStep \/ ReportMeasureStep

\* the stores a report is made from
SpecReport == Init /\ [][NextReport]_vars

\* the start and the end of one session
ReadEvents ==
    {e \in TrendEvents :
        /\ e.sessionId = PolicySession
        /\ e.eventType \in {"session_start", "session_end"}}

ReadEmitStep ==
    \E data \in ReadEvents :
        /\ Emit(data)
        /\ CountEvents(sessions') <= MaxReadEvents

\* the read operations of the tracker: none of them assigns a field
GetResultsStep ==
    /\ \E sessionId \in SessionIds :
           ret' = Returned("getResults", GetResults(results, sessionId))
    /\ UNCHANGED <<config, results, sessions, synthTrends>>

GetGateStatsStep ==
    /\ \E sessionId \in SessionIds, gate \in Gates :
           ret' = Returned("getGateStats", GetGateStats(results, sessionId, gate))
    /\ UNCHANGED <<config, results, sessions, synthTrends>>

GetSessionStatsStep ==
    /\ \E sessionId \in SessionIds :
           ret' = Returned("getSessionStats", GetSessionStats(results, config, sessionId))
    /\ UNCHANGED <<config, results, sessions, synthTrends>>

GetLineVerificationStep ==
    /\ \E sessionId \in SessionIds, filePath \in FilePaths :
           ret' = Returned("getLineVerification",
                           GetLineVerification(results, config, sessionId, filePath))
    /\ UNCHANGED <<config, results, sessions, synthTrends>>

GetConfigStep ==
    /\ ret' = Returned("getConfig", GetConfig(config))
    /\ UNCHANGED <<config, results, sessions, synthTrends>>

\* the read operations of the calculator
CalculateStep ==
    /\ \E sessionId \in SessionIds, codebaseSnapshot \in Snapshots, now \in Clock :
           ret' = Returned("calculate",
                           Calculate(sessions, results, config, sessionId,
                                     codebaseSnapshot, now))
    /\ UNCHANGED <<config, results, sessions, synthTrends>>

\* getSynthTrend storing an empty list for a session without one
GetSynthTrendStepStoring ==
    \E sessionId \in SessionIds :
        /\ ret' = Returned("getSynthTrend", GetSynthTrend(synthTrends, sessionId))
        /\ synthTrends' = IF MapHas(synthTrends, sessionId) THEN synthTrends
                          ELSE MapSet(synthTrends, sessionId, <<>>)
        /\ UNCHANGED <<config, results, sessions>>

GetSynthTrendStep ==
    /\ \E sessionId \in SessionIds :
           ret' = Returned("getSynthTrend", GetSynthTrend(synthTrends, sessionId))
    /\ UNCHANGED <<config, results, sessions, synthTrends>>

GetReportStep ==
    /\ \E sessionId \in SessionIds, codebaseSnapshot \in Snapshots, now \in Clock :
           ret' = Returned("getReport",
                           GetReport(sessions, results, config, synthTrends, sessionId,
                                     codebaseSnapshot, now))
    /\ UNCHANGED <<config, results, sessions, synthTrends>>

FormatReportStep ==
    /\ \E sessionId \in SessionIds, codebaseSnapshot \in Snapshots, now \in Clock :
           ret' = Returned("formatReport",
                           FormatReport(sessions, results, config, synthTrends, sessionId,
                                        codebaseSnapshot, now))
    /\ UNCHANGED <<config, results, sessions, synthTrends>>

NextReads ==
    \/ ReadEmitStep \/ ReportRecordStep \/ ReportMeasureStep
    \/ GetResultsStep \/ GetGateStatsStep \/ GetSessionStatsStep
    \/ GetLineVerificationStep \/ GetConfigStep
    \/ CalculateStep \/ GetSynthTrendStep \/ GetReportStep \/ FormatReportStep

\* the stores with the read operations called in between
SpecReads == Init /\ [][NextReads]_vars

\* a call that has not returned yet, and the same call with its result
Call(op, args) == [op |-> op, args |-> args]
Answered(call, result) == [op |-> call.op, args |-> call.args, result |-> result]
Pending(call) == "result" \notin DOMAIN call

\* the pieces the lines of a content are made of
TokensOfLanguage(language) ==
    CASE language \in {"typescript", "javascript"} ->
             {<<"/", "*">>, <<"*", "/">>, <<"/", "/">>, <<"/">>, <<"x">>, <<" ">>, <<CR>>}
      [] language = "python" ->
             {<<"\"", "\"", "\"">>, <<"#">>, <<"x">>, <<" ">>, <<CR>>}
      [] language = "unknown" ->
             {<<"/", "/">>, <<"#">>, <<"x">>, <<" ">>}

\* the texts of at most n pieces
RECURSIVE LineTexts(_, _)
LineTexts(tokens, n) ==
    IF n = 0 THEN {<<>>}
    ELSE LET shorter == LineTexts(tokens, n - 1)
         IN  shorter \cup {text \o token : text \in shorter, token \in tokens}

Separators == {<<LF>>, <<CR, LF>>}

\* the contents of at most n texts with a separator between each two
RECURSIVE ContentsOf(_, _)
ContentsOf(texts, n) ==
    IF n = 1 THEN texts
    ELSE LET shorter == ContentsOf(texts, n - 1)
         IN  shorter \cup {content \o separator \o text :
                               content \in shorter, separator \in Separators,
                               text \in texts}

Contents(language) ==
    ContentsOf(LineTexts(TokensOfLanguage(language), MaxTokens), MaxContentLines)

\* a call of countLines with any content in any language
InitCountLines ==
    /\ config = DEFAULT_GATE_CONFIG
    /\ results = <<>>
    /\ sessions = <<>>
    /\ synthTrends = <<>>
    /\ \E language \in Languages :
           \E content \in Contents(language) :
               ret = Call("countLines", [content |-> content, language |-> language])

CountLinesStep ==
    /\ ret.op = "countLines"
    /\ Pending(ret)
    /\ ret' = Answered(ret, CountLines(ret.args.content, ret.args.language))
    /\ UNCHANGED <<config, results, sessions, synthTrends>>

\* countLines applied to the content of the call
SpecCountLines == InitCountLines /\ [][CountLinesStep]_vars

\* a.ts, b.PY and c.md
FileNames == {<<"a", ".", "t", "s">>, <<"b", ".", "P", "Y">>, <<"c", ".", "m", "d">>}

\* src, dist and .git
DirectoryNames == {<<"s", "r", "c">>, <<"d", "i", "s", "t">>, <<".", "g", "i", "t">>}

FileContents == {<<"x">>, <<"/", "/", "c", LF>>}

FileEntries ==
    {DirEntry(name, "file", readable, content, <<>>) :
        name \in FileNames, readable \in BOOLEAN, content \in FileContents}

OtherEntries == {DirEntry(<<"a", ".", "t", "s">>, "other", TRUE, <<>>, <<>>)}

DistinctNames(entries) ==
    \A i, j \in 1..Len(entries) : i # j => entries[i].name # entries[j].name

\* the listings of directories that hold at most n entries, nested ones
\* counted, with no name twice in a directory
RECURSIVE Listings(_)
Listings(n) ==
    IF n = 0 THEN {<<>>}
    ELSE {<<>>} \cup
         UNION {LET entriesOfSize ==
                        IF k = 1
                        THEN FileEntries \cup OtherEntries \cup
                             {DirEntry(name, "directory", readable, <<>>, <<>>) :
                                 name \in DirectoryNames, readable \in BOOLEAN}
                        ELSE {DirEntry(name, "directory", TRUE, <<>>, entries) :
                                 name \in DirectoryNames,
                                 entries \in {l \in Listings(k - 1) : l # <<>>}}
                IN  {l \in {<<entry>> \o rest :
                                entry \in entriesOfSize, rest \in Listings(n - k)} :
                        DistinctNames(l)} :
                k \in 1..n}

RootPath == <<"/", "r">>

\* the directory rootPath names
Roots ==
    {DirEntry(<<"r">>, "directory", readable, <<>>, entries) :
        readable \in BOOLEAN, entries \in Listings(MaxEntries)}

\* a call of snapshotCodebase over any file system
InitSnapshot ==
    /\ config = DEFAULT_GATE_CONFIG
    /\ results = <<>>
    /\ sessions = <<>>
    /\ synthTrends = <<>>
    /\ \E root \in Roots :
           ret = Call("snapshotCodebase", [rootPath |-> RootPath, root |-> root])

SnapshotStep ==
    /\ ret.op = "snapshotCodebase"
    /\ Pending(ret)
    /\ ret' = Answered(ret, SnapshotCodebase(ret.args.rootPath, ret.args.root))
    /\ UNCHANGED <<config, results, sessions, synthTrends>>

\* snapshotCodebase applied to the file system of the call
SpecSnapshot == InitSnapshot /\ [][SnapshotStep]_vars

TypeOK ==
    /\ DOMAIN results \subseteq SessionIds
    /\ DOMAIN config = Gates

----------------------------------------------------------------------------
(* The observations of a result list, as a set: what the claims refer to   *)

ObservationsOf(list) ==
    UNION {{[gate |-> list[i].gate,
             filePath |-> list[i].filePath,
             lineNumber |-> list[i].lineResults[j].lineNumber,
             passed |-> list[i].lineResults[j].passed] :
                j \in 1..Len(list[i].lineResults)} : i \in 1..Len(list)}

\* the observations a gate made of a (file, line) pair
ObservationsAt(list, gate, loc) ==
    {o \in ObservationsOf(list) :
        o.gate = gate /\ o.filePath = loc[1] /\ o.lineNumber = loc[2]}

\* the (file, line) pairs a gate observed
CheckedBy(list, gate) ==
    {<<o.filePath, o.lineNumber>> : o \in {x \in ObservationsOf(list) : x.gate = gate}}

\* those of them whose every observation by the gate passed
PassedBy(list, gate) ==
    {loc \in CheckedBy(list, gate) : \A o \in ObservationsAt(list, gate, loc) : o.passed}

Sessions == DOMAIN results

----------------------------------------------------------------------------
(* C1: for every session and gate, getGateStats returns linesChecked = the  *)
(* number of distinct (filePath, lineNumber) pairs the gate observed and    *)
(* linesPassed = the number of those whose every observation passed;        *)
(* passRate = linesPassed / linesChecked (1 when nothing was checked) and   *)
(* poe = 1 - passRate.                                                      *)
C1_GateStats ==
    \A s \in Sessions, g \in Gates :
        LET stats == GetGateStats(results, s, g).value
            checked == Cardinality(CheckedBy(results[s], g))
            passed == Cardinality(PassedBy(results[s], g))
        IN  /\ stats.linesChecked = checked
            /\ stats.linesPassed = passed
            /\ IF checked = 0 THEN stats.passRate = <<1, 1>>
               ELSE stats.passRate[1] * checked = passed * stats.passRate[2]
            /\ stats.poe[2] = stats.passRate[2]
            /\ stats.poe[1] + stats.passRate[1] = stats.passRate[2]

\* a gate observed two lines, one passing, one both passing and failing
C1_Witness ==
    \E s \in Sessions, g \in Gates :
        /\ Cardinality(PassedBy(results[s], g)) = 1
        /\ \E loc \in CheckedBy(results[s], g) :
              {o.passed : o \in ObservationsAt(results[s], g, loc)} = BOOLEAN
        /\ GetGateStats(results, s, g).value.poe = <<1, 2>>

----------------------------------------------------------------------------
(* Rearrangements of a result list: the results in any order, the line      *)
(* results of each in any order                                             *)

IndexPermutations(n) == {p \in [1..n -> 1..n] : \A i, j \in 1..n : p[i] = p[j] => i = j}

Reorderings(seq) == {[i \in 1..Len(seq) |-> seq[p[i]]] : p \in IndexPermutations(Len(seq))}

RECURSIVE LineReorderings(_)
LineReorderings(list) ==
    IF list = <<>> THEN {<<>>}
    ELSE {<<[Head(list) EXCEPT !.lineResults = lrs]>> \o rest :
            lrs \in Reorderings(Head(list).lineResults),
            rest \in LineReorderings(Tail(list))}

Rearrangements(list) == UNION {LineReorderings(l) : l \in Reorderings(list)}

\* the tracker's results with one session's list replaced
WithList(sessionId, list) == [results EXCEPT ![sessionId] = list]

(* C2: for a fixed multiset of observations of a session, every order of    *)
(* recording them (and of the line results inside a result) gives the same  *)
(* getGateStats for every gate, the same getSessionStats and the same       *)
(* getLineVerification for every file.                                      *)
C2_OrderIndependent ==
    \A s \in Sessions :
        \A list \in Rearrangements(results[s]) :
            /\ \A g \in Gates :
                GetGateStats(WithList(s, list), s, g) = GetGateStats(results, s, g)
            /\ GetSessionStats(WithList(s, list), config, s) = GetSessionStats(results, config, s)
            /\ \A f \in FilePaths :
                GetLineVerification(WithList(s, list), config, s, f)
                    = GetLineVerification(results, config, s, f)

\* the part of C2 that the code keeps: counts and verdicts do not depend on the order
C2_StatsOrderIndependent ==
    \A s \in Sessions :
        \A list \in Rearrangements(results[s]) :
            /\ \A g \in Gates :
                GetGateStats(WithList(s, list), s, g) = GetGateStats(results, s, g)
            /\ GetSessionStats(WithList(s, list), config, s) = GetSessionStats(results, config, s)

----------------------------------------------------------------------------
(* The verdicts the claims refer to, from the observation set and a policy  *)

\* the (file, line) pairs any gate observed
Touched(list) == {<<o.filePath, o.lineNumber>> : o \in ObservationsOf(list)}

\* the gate is consulted under the policy: required and not skipped
Consulted(cfg, gate) == cfg[gate].required /\ ~cfg[gate].skip

\* the gate observed the pair and every such observation passed
GatePassed(list, gate, loc) ==
    /\ ObservationsAt(list, gate, loc) # {}
    /\ \A o \in ObservationsAt(list, gate, loc) : o.passed

\* the gate has a failing observation of the pair
GateFailed(list, gate, loc) == \E o \in ObservationsAt(list, gate, loc) : ~o.passed

ShouldBeVerified(list, cfg, loc) ==
    /\ loc \in Touched(list)
    /\ \A g \in Gates : Consulted(cfg, g) => ~GateFailed(list, g, loc)

\* the verified flag getLineVerification reports for a pair, FALSE when it reports none
ReportedVerified(store, cfg, sessionId, loc) ==
    LET lines == GetLineVerification(store, cfg, sessionId, loc[1]).value
    IN  \E i \in 1..Len(lines) :
            /\ lines[i].location = [filePath |-> loc[1], lineNumber |-> loc[2]]
            /\ lines[i].verified

Locations == FilePaths \X Lines

(* C3: a line counts as verified, in getSessionStats.verifiedLines and in   *)
(* getLineVerification, if and only if some gate observed it and every gate *)
(* that is required, not skipped and observed it passed in all its          *)
(* observations of the line.                                                *)
C3_VerifiedIff ==
    \A s \in Sessions :
        /\ GetSessionStats(results, config, s).value.verifiedLines
                = Cardinality({loc \in Touched(results[s]) :
                                    ShouldBeVerified(results[s], config, loc)})
        /\ \A loc \in Locations :
                ReportedVerified(results, config, s, loc)
                    <=> ShouldBeVerified(results[s], config, loc)

\* a verified line that an unconsulted gate failed, next to an unverified line
C3_Witness ==
    \E s \in Sessions, loc \in Locations, other \in Locations, g \in Gates :
        /\ ReportedVerified(results, config, s, loc)
        /\ GateFailed(results[s], g, loc)
        /\ other \in Touched(results[s])
        /\ ~ReportedVerified(results, config, s, other)

----------------------------------------------------------------------------
\* the verdict getGateStats holds for a pair: "passed", "failed" or "unchecked"
GateVerdict(list, gate, loc) ==
    LET lineMap == GateLines(list, gate)
        key == LineKey(loc[1], loc[2])
    IN  IF ~MapHas(lineMap, key) THEN "unchecked"
        ELSE IF MapGet(lineMap, key) THEN "passed" ELSE "failed"

(* C4: with the policy unchanged, a (file, line) pair that has a failing    *)
(* observation for a gate is never counted as passed for that gate by       *)
(* getGateStats after later record calls, and a touched line reported       *)
(* unverified is not reported verified after later record calls.            *)
C4_FailureIsPermanent ==
    [][(config' = config /\ results' # results) =>
        \A s \in Sessions :
            \A loc \in Touched(results[s]) :
                /\ \A g \in Gates :
                    GateFailed(results[s], g, loc)
                        => /\ GateVerdict(results'[s], g, loc) = "failed"
                           /\ GetGateStats(results', s, g).value.linesPassed
                                < GetGateStats(results', s, g).value.linesChecked
                /\ ~ReportedVerified(results, config, s, loc)
                        => ~ReportedVerified(results', config', s, loc)]_vars

\* a failing observation of a line is followed by a passing one of the same gate
C4_Witness ==
    \E s \in Sessions, i \in 1..MaxRecords, j \in 1..MaxRecords :
        /\ i < j
        /\ j <= Len(results[s])
        /\ results[s][i].gate = results[s][j].gate
        /\ results[s][i].filePath = results[s][j].filePath
        /\ \E lr \in LineResult :
            /\ ~results[s][i].lineResults[1].passed
            /\ results[s][i].lineResults[1].lineNumber = lr.lineNumber
            /\ results[s][j].lineResults = <<[lr EXCEPT !.passed = TRUE]>>
            /\ ~ReportedVerified(results, config, s, <<results[s][i].filePath, lr.lineNumber>>)

----------------------------------------------------------------------------
\* G1 and G3 observed the line and passed throughout; G2 has a failing observation
PassesAllButG2(list, loc) ==
    /\ GatePassed(list, "G1_COMPILE", loc)
    /\ GatePassed(list, "G3_REACHABLE", loc)
    /\ GateFailed(list, "G2_CORRECT", loc)

(* C5, as stated: a line that passes G1 and G3 in all its observations but  *)
(* has a failing G2 observation is never verified, also after setConfig     *)
(* marks G2 skip = true.                                                    *)
C5_NeverVerified ==
    \A s \in Sessions, loc \in Locations :
        PassesAllButG2(results[s], loc) => ~ReportedVerified(results, config, s, loc)

(* C5, amended: such a line is unverified exactly while G2 is required and  *)
(* not skipped under the current policy; once setConfig marks G2 skipped    *)
(* (or not required) the line is reported verified.                         *)
C5_VerifiedOnceG2Skipped ==
    \A s \in Sessions, loc \in Locations :
        PassesAllButG2(results[s], loc)
            => (ReportedVerified(results, config, s, loc)
                    <=> (config["G2_CORRECT"].skip \/ ~config["G2_CORRECT"].required))

\* setConfig has just marked G2 skipped and such a line is on record
C5_Witness ==
    /\ ret.op = "setConfig"
    /\ config["G2_CORRECT"].skip
    /\ config["G2_CORRECT"].required
    /\ \E s \in Sessions, loc \in Locations : PassesAllButG2(results[s], loc)

----------------------------------------------------------------------------
(* C7: under the default policy, a line that has no G2 observation or no G3 *)
(* observation is not counted as verified.                                  *)
C7_UncoveredNotVerified ==
    config = DEFAULT_GATE_CONFIG =>
        \A s \in Sessions :
            LET covered == {loc \in Locations :
                                /\ ObservationsAt(results[s], "G2_CORRECT", loc) # {}
                                /\ ObservationsAt(results[s], "G3_REACHABLE", loc) # {}}
            IN  /\ \A loc \in Locations \ covered :
                        ~ReportedVerified(results, config, s, loc)
                /\ GetSessionStats(results, config, s).value.verifiedLines
                        <= Cardinality(covered)

----------------------------------------------------------------------------
\* 1 - poe of a gate as getGateStats reports it, or 1 for a gate left out
PassFactor(store, cfg, sessionId, gate) ==
    LET poe == GetGateStats(store, sessionId, gate).value.poe
    IN  IF Consulted(cfg, gate) THEN <<poe[2] - poe[1], poe[2]>> ELSE <<1, 1>>

(* C8: getSessionStats returns overallPoE = 1 - the product, over the gates *)
(* that are required and not skipped, of (1 - poe of the gate); a skipped   *)
(* or not required gate does not enter the product.                         *)
C8_OverallPoE ==
    \A s \in Sessions :
        LET f1 == PassFactor(results, config, s, "G1_COMPILE")
            f2 == PassFactor(results, config, s, "G2_CORRECT")
            f3 == PassFactor(results, config, s, "G3_REACHABLE")
            num == f1[1] * f2[1] * f3[1]
            den == f1[2] * f2[2] * f3[2]
            overallPoE == GetSessionStats(results, config, s).value.overallPoE
        IN  /\ overallPoE[2] > 0
            /\ overallPoE[1] * den = (den - num) * overallPoE[2]

\* a gate left out of the product that fails every line, a consulted gate failing half
C8_Witness ==
    \E s \in Sessions, g \in Gates, h \in Gates :
        /\ ~Consulted(config, g)
        /\ GetGateStats(results, s, g).value.poe = <<1, 1>>
        /\ Consulted(config, h)
        /\ GetGateStats(results, s, h).value.poe = <<1, 2>>
        /\ GetSessionStats(results, config, s).value.overallPoE = <<1, 2>>

----------------------------------------------------------------------------
(* C9: overallPoE is 0 whenever no gate is both required and not skipped,   *)
(* whatever failures are on record, and 0 whenever every gate passed every  *)
(* line it checked, whatever the policy.                                    *)
C9_ZeroPoE ==
    \A s \in Sessions :
        LET overallPoE == GetSessionStats(results, config, s).value.overallPoE
        IN  /\ (\A g \in Gates : config[g].skip \/ ~config[g].required)
                => overallPoE = <<0, 1>>
            /\ (\A g \in Gates : PassedBy(results[s], g) = CheckedBy(results[s], g))
                => overallPoE = <<0, 1>>

\* no gate is consulted while a gate has failed a line
C9_Witness ==
    /\ \A g \in Gates : config[g].skip \/ ~config[g].required
    /\ \E s \in Sessions, g \in Gates, loc \in Locations : GateFailed(results[s], g, loc)

\* every gate passed all it checked, one gate skipped, one not required
C9_WitnessAllPass ==
    /\ \E g \in Gates : config[g].skip
    /\ \E g \in Gates : ~config[g].required
    /\ \E s \in Sessions :
        /\ Touched(results[s]) # {}
        /\ \A g \in Gates : PassedBy(results[s], g) = CheckedBy(results[s], g)

----------------------------------------------------------------------------
(* C10: record fails with INVALID_GATE exactly when the gate kind is not    *)
(* G1_COMPILE, G2_CORRECT or G3_REACHABLE; a failed record leaves the       *)
(* results unchanged (nothing appended, no session created, an unknown      *)
(* session stays SESSION_NOT_FOUND); with a recognized gate it succeeds and *)
(* appends the result.                                                      *)
C10_InvalidGate ==
    [][ret'.op = "record" =>
        IF ret'.result.ok
        THEN LET v == ret'.result.value
                  before == IF v.sessionId \in DOMAIN results
                            THEN results[v.sessionId] ELSE <<>>
             IN  /\ v.gate \in {"G1_COMPILE", "G2_CORRECT", "G3_REACHABLE"}
                 /\ DOMAIN results' = DOMAIN results \cup {v.sessionId}
                 /\ results'[v.sessionId]
                        = Append(before, [gate |-> v.gate, filePath |-> v.filePath,
                                          lineResults |-> v.lineResults])
        ELSE /\ ret'.result.code = "INVALID_GATE"
             /\ ret'.result.message \notin {"G1_COMPILE", "G2_CORRECT", "G3_REACHABLE"}
             /\ results' = results
             /\ \A s \in SessionIds : GetResults(results', s) = GetResults(results, s)]_vars

\* a record was rejected while a session is still unknown and another has results
C10_Witness ==
    /\ ret.op = "record"
    /\ ~ret.result.ok
    /\ \E s \in SessionIds : ~GetResults(results, s).ok
    /\ \E s \in SessionIds : GetResults(results, s).ok

----------------------------------------------------------------------------
\* a is a prefix of b
IsPrefix(a, b) == Len(a) <= Len(b) /\ SubSeq(b, 1, Len(a)) = a

(* C11: the result list of a session is append-only: a successful record    *)
(* appends exactly one entry at the end of its session's list, and across   *)
(* every step (record, failed record, setConfig) the list getResults        *)
(* returned before is a prefix of the list it returns after; a known        *)
(* session never becomes unknown.                                           *)
C11_AppendOnly ==
    [][/\ \A s \in SessionIds :
            GetResults(results, s).ok
                => /\ GetResults(results', s).ok
                   /\ IsPrefix(GetResults(results, s).value, GetResults(results', s).value)
       /\ IF ret'.op = "record" /\ ret'.result.ok
          THEN LET s == ret'.result.value.sessionId
                   before == IF GetResults(results, s).ok
                             THEN GetResults(results, s).value ELSE <<>>
               IN  /\ Len(GetResults(results', s).value) = Len(before) + 1
                   /\ \A t \in SessionIds \ {s} : GetResults(results', t) = GetResults(results, t)
          ELSE \A s \in SessionIds : GetResults(results', s) = GetResults(results, s)]_vars

\* setConfig has returned while a session holds two results
C11_Witness ==
    /\ ret.op = "setConfig"
    /\ \E s \in Sessions : Len(results[s]) >= 2

----------------------------------------------------------------------------
\* the result is the SESSION_NOT_FOUND error
NotFound(r) == ~r.ok /\ r.code = "SESSION_NOT_FOUND"

\* every one of the four session reads fails with SESSION_NOT_FOUND
AllNotFound(store, cfg, sessionId) ==
    /\ NotFound(GetResults(store, sessionId))
    /\ NotFound(GetSessionStats(store, cfg, sessionId))
    /\ \A g \in Gates : NotFound(GetGateStats(store, sessionId, g))
    /\ \A f \in FilePaths : NotFound(GetLineVerification(store, cfg, sessionId, f))

\* every one of them succeeds
AllFound(store, cfg, sessionId) ==
    /\ GetResults(store, sessionId).ok
    /\ GetSessionStats(store, cfg, sessionId).ok
    /\ \A g \in Gates : GetGateStats(store, sessionId, g).ok
    /\ \A f \in FilePaths : GetLineVerification(store, cfg, sessionId, f).ok

(* C12: getResults, getGateStats, getSessionStats and getLineVerification   *)
(* all fail with SESSION_NOT_FOUND for a session until the first record     *)
(* call succeeds for it and all succeed from then on; a session whose first *)
(* record carried no line results is found, and getGateStats then returns   *)
(* linesChecked = 0, passRate = 1 and poe = 0 for every gate.               *)
C12_SessionNotFound ==
    /\ \A s \in SessionIds : AllNotFound(results, config, s)
    /\ [](\A s \in SessionIds :
            IF GetResults(results, s).ok
            THEN AllFound(results, config, s)
            ELSE AllNotFound(results, config, s))
    /\ [][\A s \in SessionIds :
            LET succeeded == /\ ret'.op = "record"
                             /\ ret'.result.ok
                             /\ ret'.result.value.sessionId = s
            IN  /\ NotFound(GetResults(results', s))
                        <=> (NotFound(GetResults(results, s)) /\ ~succeeded)
                /\ (succeeded /\ NotFound(GetResults(results, s))
                        /\ ret'.result.value.lineResults = <<>>)
                    => \A g \in Gates :
                        GetGateStats(results', s, g)
                            = Ok([linesChecked |-> 0, linesPassed |-> 0,
                                  passRate |-> <<1, 1>>, poe |-> <<0, 1>>])]_vars

\* a session is known by one record without line results, the other is unknown
\* after a rejected record
C12_Witness ==
    /\ ret.op = "record"
    /\ ~ret.result.ok
    /\ \E s \in SessionIds, t \in SessionIds :
        /\ AllNotFound(results, config, t)
        /\ AllFound(results, config, s)
        /\ Len(results[s]) = 1
        /\ results[s][1].lineResults = <<>>
        /\ GetGateStats(results, s, "G2_CORRECT").value.passRate = <<1, 1>>

----------------------------------------------------------------------------
\* the line numbers observed, by any gate, for a file
LinesObserved(list, filePath) ==
    {o.lineNumber : o \in {x \in ObservationsOf(list) : x.filePath = filePath}}

\* the AND of a gate's observations of a pair, undefined when there are none
GateState(list, gate, loc) ==
    IF ObservationsAt(list, gate, loc) = {} THEN Undefined
    ELSE Def(\A o \in ObservationsAt(list, gate, loc) : o.passed)

\* the list is what getLineVerification should return for the file
ExactLinesOf(lines, list, filePath) ==
    /\ Len(lines) = Cardinality(LinesObserved(list, filePath))
    /\ {lines[i].location.lineNumber : i \in 1..Len(lines)} = LinesObserved(list, filePath)
    /\ \A i \in 1..Len(lines), j \in 1..Len(lines) :
            i < j => lines[i].location.lineNumber < lines[j].location.lineNumber
    /\ \A i \in 1..Len(lines) :
            LET loc == <<filePath, lines[i].location.lineNumber>>
            IN  /\ lines[i].g1Passed = GateState(list, "G1_COMPILE", loc)
                /\ lines[i].g2Passed = GateState(list, "G2_CORRECT", loc)
                /\ lines[i].g3Passed = GateState(list, "G3_REACHABLE", loc)

(* C13: for a known session, getLineVerification(session, file) returns     *)
(* exactly one entry per distinct line number observed for that file, in    *)
(* ascending line-number order, each carrying for every gate the AND of the *)
(* gate's observations of the line (undefined when it has none); a file     *)
(* with no observations yields an empty list.                               *)
C13_LineVerification ==
    \A s \in Sessions, f \in FilePaths :
        /\ GetLineVerification(results, config, s, f).ok
        /\ ExactLinesOf(GetLineVerification(results, config, s, f).value, results[s], f)

\* the part of C13 that the code keeps: files of which no recorded path is an
\* extension by ':'
C13_UnextendedFiles ==
    \A s \in Sessions, f \in FilePaths :
        (\A o \in ObservationsOf(results[s]) :
            o.filePath # f => ~StartsWith(o.filePath, f \o <<":">>))
        => /\ GetLineVerification(results, config, s, f).ok
           /\ ExactLinesOf(GetLineVerification(results, config, s, f).value, results[s], f)

----------------------------------------------------------------------------
\* the patch supplies, for some gate, a threshold below 0 or above 1
OutOfRange(patch) ==
    \E g \in DOMAIN patch :
        /\ "threshold" \in DOMAIN patch[g]
        /\ \/ patch[g].threshold[1] < 0
           \/ patch[g].threshold[1] > patch[g].threshold[2]

GateFields == {"required", "threshold", "skip"}

\* the patch supplies the field of the gate
Supplies(patch, gate, field) ==
    gate \in DOMAIN patch /\ field \in DOMAIN patch[gate]

(* C14: setConfig fails with INVALID_THRESHOLD when the patch supplies, for *)
(* any gate, a threshold below 0 or above 1, and fails for no other reason; *)
(* a failed setConfig changes nothing: the policy (also the fields of other *)
(* gates that the same patch supplies with valid values) and the results    *)
(* are as before.                                                           *)
C14_InvalidThreshold ==
    [][/\ \A patch \in ThresholdPatches :
            (SetConfig(patch) /\ OutOfRange(patch))
                => /\ ~ret'.result.ok
                   /\ ret'.result.code = "INVALID_THRESHOLD"
       /\ (ret'.op = "setConfig" /\ ~ret'.result.ok)
            => /\ ret'.result.code = "INVALID_THRESHOLD"
               /\ OutOfRange(ret'.result.message)
               /\ config' = config
               /\ results' = results]_vars

\* setConfig was rejected for a patch that also supplies a valid G1 flag the
\* policy does not have, while the policy differs from the default
C14_Witness ==
    /\ ret.op = "setConfig"
    /\ ~ret.result.ok
    /\ Supplies(ret.result.message, "G1_COMPILE", "skip")
    /\ ret.result.message["G1_COMPILE"].skip # config["G1_COMPILE"].skip
    /\ config["G3_REACHABLE"] # DEFAULT_GATE_CONFIG["G3_REACHABLE"]
    /\ results # <<>>

(* C15: a successful setConfig changes only the fields it supplies: every   *)
(* field of every gate takes the supplied value if the patch supplies it    *)
(* and keeps its previous value otherwise, and the recorded results of      *)
(* every session are unchanged.                                             *)
C15_OnlySuppliedFields ==
    [][(ret'.op = "setConfig" /\ ret'.result.ok)
        => /\ results' = results
           /\ \A g \in Gates : DOMAIN config'[g] = GateFields
           /\ \A patch \in ThresholdPatches :
                SetConfig(patch)
                    => \A g \in Gates, f \in GateFields :
                        config'[g][f] = IF Supplies(patch, g, f)
                                        THEN patch[g][f] ELSE config[g][f]]_vars

\* setConfig succeeded on a policy in which one gate has a flag and a
\* threshold off the default and another gate is off the default too
C15_Witness ==
    /\ ret.op = "setConfig"
    /\ ret.result.ok
    /\ results # <<>>
    /\ \E g \in Gates, h \in Gates :
        /\ g # h
        /\ config[g].threshold = Half
        /\ config[g].skip
        /\ config[h] # DEFAULT_GATE_CONFIG[h]

\* thresholds a policy may hold
ThresholdValues == {Zero, Half, One, NaN}

\* the policy with the threshold of one gate replaced
WithThreshold(cfg, gate, t) == [cfg EXCEPT ![gate].threshold = t]

(* C16: thresholds do not influence verdicts: replacing the threshold of    *)
(* any one gate in the policy, flags unchanged, leaves getSessionStats and  *)
(* getLineVerification of every session as they are (getGateStats does not  *)
(* read the policy at all); two policies with the same flags differ by a    *)
(* chain of such replacements.                                              *)
C16_ThresholdsIgnored ==
    \A s \in Sessions :
        LET stats == GetSessionStats(results, config, s)
            lines == [f \in FilePaths |-> GetLineVerification(results, config, s, f)]
        IN  \A g \in Gates, t \in ThresholdValues :
                /\ GetSessionStats(results, WithThreshold(config, g, t), s) = stats
                /\ \A f \in FilePaths :
                        GetLineVerification(results, WithThreshold(config, g, t), s, f)
                            = lines[f]

\* a consulted gate with threshold 1/2 has failed a line and another gate
\* holds the threshold NaN
C16_Witness ==
    /\ config["G3_REACHABLE"].threshold = NaN
    /\ \E s \in Sessions, g \in Gates :
        /\ config[g].threshold = Half
        /\ Consulted(config, g)
        /\ GateFailed(results[s], g, <<PolicyFile, 1>>)
        /\ ~ReportedVerified(results, config, s, <<PolicyFile, 1>>)

----------------------------------------------------------------------------
(* C17: sessions are independent: a record call for one session leaves      *)
(* what getResults, getGateStats, getSessionStats and getLineVerification   *)
(* return for every other session unchanged.                                *)
C17_SessionsIndependent ==
    [][(ret'.op = "record" /\ ret'.result.ok) =>
        \A t \in SessionIds \ {ret'.result.value.sessionId} :
            /\ GetResults(results', t) = GetResults(results, t)
            /\ GetSessionStats(results', config', t) = GetSessionStats(results, config, t)
            /\ \A g \in Gates : GetGateStats(results', t, g) = GetGateStats(results, t, g)
            /\ \A f \in FilePaths :
                    GetLineVerification(results', config', t, f)
                        = GetLineVerification(results, config, t, f)]_vars

\* a record for one session has returned while the other session holds a
\* failing and a passing line
C17_Witness ==
    /\ ret.op = "record"
    /\ ret.result.ok
    /\ \E t \in Sessions \ {ret.result.value.sessionId} :
        /\ GetSessionStats(results, config, t).value.totalLinesChecked = 2
        /\ GetSessionStats(results, config, t).value.verifiedLines = 1

----------------------------------------------------------------------------
(* The collector's sessions as the claims refer to them                     *)

\* the status getSession reports for the id, "unknown" when it reports none
StatusOf(store, id) ==
    IF GetSession(store, id).ok THEN GetSession(store, id).value.metadata.status
    ELSE "unknown"

\* the call was an emit that accepted an event of the type for the session
Accepted(r, id, eventType) ==
    /\ r.op = "emit"
    /\ r.result.ok
    /\ r.result.value.sessionId = id
    /\ r.result.value.eventType = eventType

(* C18: a collector session comes into being, with status active and its    *)
(* session_start as only event, exactly when a session_start for its id is  *)
(* accepted; it leaves active exactly when a session_end for it is          *)
(* accepted, to completed if payload.success and to failed otherwise, with  *)
(* endedAt the timestamp of that event; from then on the session (status,   *)
(* endedAt, events) never changes and every emit for its id is rejected.    *)
C18_Lifecycle ==
    [][\A id \in UUIDs :
        LET before == GetSession(sessions, id)
            after == GetSession(sessions', id)
            event == ret'.result.value
        IN  CASE StatusOf(sessions, id) = "unknown" ->
                    IF Accepted(ret', id, "session_start")
                    THEN /\ StatusOf(sessions', id) = "active"
                         /\ after.value.metadata.startedAt = event.timestamp
                         /\ after.value.events = <<event>>
                    ELSE StatusOf(sessions', id) = "unknown"
              [] StatusOf(sessions, id) = "active" ->
                    IF Accepted(ret', id, "session_end")
                    THEN /\ StatusOf(sessions', id)
                                = IF event.payload.success THEN "completed" ELSE "failed"
                         /\ after.value.metadata.endedAt = event.timestamp
                         /\ after.value.events = Append(before.value.events, event)
                    ELSE StatusOf(sessions', id) = "active"
              [] OTHER ->
                    /\ after = before
                    /\ \A data \in EmitInputs :
                        (Emit(data) /\ "sessionId" \in DOMAIN data /\ data.sessionId = id)
                            => ~ret'.result.ok]_vars

\* an emit for a failed session that holds three events has been rejected
C18_Witness ==
    /\ ret.op = "emit"
    /\ ~ret.result.ok
    /\ StatusOf(sessions, ret.result.message) = "failed"
    /\ Len(GetSession(sessions, ret.result.message).value.events) = 3

\* the call returned the error code
Failed(r, code) == ~r.result.ok /\ r.result.code = code

(* C19: for a well-formed event, emit returns SESSION_ALREADY_EXISTS for a  *)
(* session_start whose session exists (active or ended), SESSION_NOT_FOUND  *)
(* for any other event whose session does not exist, SESSION_NOT_ACTIVE for *)
(* any other event whose session has ended, and succeeds otherwise.         *)
C19_EmitErrors ==
    [][\A data \in ValidEvents :
        Emit(data) =>
            CASE data.eventType = "session_start"
                    /\ StatusOf(sessions, data.sessionId) # "unknown" ->
                        Failed(ret', "SESSION_ALREADY_EXISTS")
              [] data.eventType # "session_start"
                    /\ StatusOf(sessions, data.sessionId) = "unknown" ->
                        Failed(ret', "SESSION_NOT_FOUND")
              [] data.eventType # "session_start"
                    /\ StatusOf(sessions, data.sessionId) \in {"completed", "failed"} ->
                        Failed(ret', "SESSION_NOT_ACTIVE")
              [] OTHER -> ret'.result.ok]_vars

\* a session_start for an ended session was rejected while the other session
\* is active
C19_Witness ==
    /\ ret.op = "emit"
    /\ Failed(ret, "SESSION_ALREADY_EXISTS")
    /\ StatusOf(sessions, ret.result.message) = "completed"
    /\ \E id \in UUIDs : StatusOf(sessions, id) = "active"

(* C20: an emit that returns an error returns VALIDATION_ERROR,             *)
(* SESSION_ALREADY_EXISTS, SESSION_NOT_FOUND or SESSION_NOT_ACTIVE and      *)
(* leaves the collector as it was: no session created, no event appended,   *)
(* no metadata modified.                                                    *)
C20_FailedEmit ==
    [][(ret'.op = "emit" /\ ~ret'.result.ok)
        => /\ ret'.result.code \in {"VALIDATION_ERROR", "SESSION_ALREADY_EXISTS",
                                     "SESSION_NOT_FOUND", "SESSION_NOT_ACTIVE"}
           /\ GetAllSessions(sessions') = GetAllSessions(sessions)
           /\ \A id \in UUIDs : GetSession(sessions', id) = GetSession(sessions, id)]_vars

\* data was rejected by the schema while the collector holds an ended session
\* and an active one
C20_Witness ==
    /\ ret.op = "emit"
    /\ Failed(ret, "VALIDATION_ERROR")
    /\ \E id \in UUIDs : StatusOf(sessions, id) = "active"
    /\ \E id \in UUIDs : StatusOf(sessions, id) \in {"completed", "failed"}

----------------------------------------------------------------------------
(* The events of a session, as counted by the claims                        *)

\* the positions of a session's events of a type
EventsOfType(store, id, eventType) ==
    {i \in 1..Len(MapGet(store, id).events) :
        MapGet(store, id).events[i].eventType = eventType}

\* those of them whose payload has the flag set
EventsWithFlag(store, id, eventType, flag) ==
    {i \in EventsOfType(store, id, eventType) : MapGet(store, id).events[i].payload[flag]}

\* the sum of the payload counts of a session's events of a type
RECURSIVE SumCounts(_, _, _)
SumCounts(store, id, positions) ==
    IF positions = {} THEN 0
    ELSE LET i == CHOOSE j \in positions : TRUE
         IN  MapGet(store, id).events[i].payload.count + SumCounts(store, id, positions \ {i})

Counters == DOMAIN ZERO_METRICS

Known(store) == {store[i].key : i \in 1..Len(store)}

(* C21: for every session, each counter returned by getMetrics never        *)
(* decreases over an emit call, and no counter changes over an emit call    *)
(* made once the session has ended.                                         *)
C21_CountersMonotonic ==
    [][\A id \in Known(sessions) :
        LET before == GetMetrics(sessions, id).value
            after == GetMetrics(sessions', id).value
        IN  /\ \A c \in Counters : before[c] <= after[c]
            /\ StatusOf(sessions, id) # "active" => after = before]_vars

\* an ended session with a positive counter received a further emit for it
C21_Witness ==
    \E id \in Known(sessions) :
        /\ StatusOf(sessions, id) # "active"
        /\ GetMetrics(sessions, id).value.totalTokensIn > 0
        /\ ret.op = "emit" /\ Failed(ret, "SESSION_NOT_ACTIVE")

(* C22: getMetrics counts iteration_end events only as iterations, sums the *)
(* payload counts of tokens_in and of tokens_out events, counts every       *)
(* compilation_result, test_result and story_complete event as an attempt   *)
(* and those with success (or passes) true as successes; so successes never *)
(* exceed attempts, and every counter is 0 for a session holding only its   *)
(* session_start.                                                           *)
C22_MetricsFold ==
    \A id \in Known(sessions) :
        LET m == GetMetrics(sessions, id).value
            n(eventType) == Cardinality(EventsOfType(sessions, id, eventType))
            yes(eventType, flag) == Cardinality(EventsWithFlag(sessions, id, eventType, flag))
        IN  /\ m.totalIterations = n("iteration_end")
            /\ m.totalTokensIn = SumCounts(sessions, id, EventsOfType(sessions, id, "tokens_in"))
            /\ m.totalTokensOut = SumCounts(sessions, id, EventsOfType(sessions, id, "tokens_out"))
            /\ m.compilationAttempts = n("compilation_result")
            /\ m.compilationSuccesses = yes("compilation_result", "success")
            /\ m.testAttempts = n("test_result")
            /\ m.testSuccesses = yes("test_result", "success")
            /\ m.storiesCompleted = n("story_complete")
            /\ m.storiesPassed = yes("story_complete", "passes")
            /\ m.compilationSuccesses <= m.compilationAttempts
            /\ m.testSuccesses <= m.testAttempts
            /\ m.storiesPassed <= m.storiesCompleted
            /\ Len(MapGet(sessions, id).events) = 1 => m = ZERO_METRICS

\* a session holds an iteration_start and an iteration_end and reports one
\* iteration
C22_Witness ==
    \E id \in Known(sessions) :
        /\ EventsOfType(sessions, id, "iteration_start") # {}
        /\ EventsOfType(sessions, id, "iteration_end") # {}
        /\ GetMetrics(sessions, id).value.totalIterations = 1

----------------------------------------------------------------------------
(* calculate with the clock reading now                                     *)

CalculateAt(sessionId, codebaseSnapshot, now) ==
    Calculate(sessions, results, config, sessionId, codebaseSnapshot, now)

\* snapshots with lines in them
CountedSnapshots == {snap \in Snapshots : snap.totals.total # 0}

(* C23: calculate fails with SESSION_NOT_FOUND for a session unknown to the *)
(* collector (whatever the snapshot and whatever the tracker holds for the  *)
(* id), otherwise with NO_LOC_DATA for a snapshot whose total is 0, and     *)
(* otherwise succeeds; for a session without gate history it succeeds with  *)
(* verifiedLOC = 0 and poeLOC = 0.                                          *)
C23_CalculateErrors ==
    \A id \in SessionIds, snap \in Snapshots, now \in Clock :
        LET r == CalculateAt(id, snap, now)
        IN  IF id \notin Known(sessions)
            THEN ~r.ok /\ r.code = "SESSION_NOT_FOUND"
            ELSE IF snap.totals.total = 0
            THEN ~r.ok /\ r.code = "NO_LOC_DATA"
            ELSE /\ r.ok
                 /\ id \notin Sessions =>
                        r.value.verifiedLOC = 0 /\ r.value.poeLOC = Zero

\* the tracker holds results for a session the collector does not know, and
\* the collector knows a session the tracker holds nothing for
C23_Witness ==
    /\ \E id \in Sessions \ Known(sessions) :
        \A snap \in Snapshots, now \in Clock : ~CalculateAt(id, snap, now).ok
    /\ \E id \in Known(sessions) \ Sessions :
        \A snap \in CountedSnapshots, now \in Clock :
            /\ CalculateAt(id, snap, now).ok
            /\ CalculateAt(id, snap, now).value.verifiedLOC = 0

\* the tokens of a session's accepted tokens_in and tokens_out events
TokensOf(store, id) ==
    SumCounts(store, id, EventsOfType(store, id, "tokens_in"))
        + SumCounts(store, id, EventsOfType(store, id, "tokens_out"))

(* C24: a successful calculate returns totalTokens = the sum of the counts  *)
(* of the session's accepted tokens_in and tokens_out events, tokensPerLOC  *)
(* = totalTokens / snapshot.totals.total, verifiedLOC = the tracker's       *)
(* verifiedLines and poeLOC = the tracker's overallPoE.                     *)
C24_TokensPerLOC ==
    \A id \in Known(sessions), snap \in CountedSnapshots, now \in Clock :
        LET m == CalculateAt(id, snap, now).value
            stats == GetSessionStats(results, config, id)
        IN  /\ m.totalTokens = TokensOf(sessions, id)
            /\ m.tokensPerLOC = Quotient(Num(TokensOf(sessions, id)), Num(snap.totals.total))
            /\ snap.totals.total = 1 => m.tokensPerLOC = Num(TokensOf(sessions, id))
            /\ stats.ok =>
                /\ m.verifiedLOC = stats.value.verifiedLines
                /\ m.poeLOC = stats.value.overallPoE

\* a session with input and output tokens and two verified lines, measured
\* against a snapshot of three lines
C24_Witness ==
    \E id \in Known(sessions) :
        /\ EventsOfType(sessions, id, "tokens_in") # {}
        /\ EventsOfType(sessions, id, "tokens_out") # {}
        /\ \A now \in Clock :
            LET m == CalculateAt(id, Snapshot(1, 1, 1), now).value
            IN  /\ m.verifiedLOC = 2
                /\ m.totalTokens = 7
                /\ m.tokensPerLOC = Fl(Frac(7, 3))

\* the lines the tracker reports verified for a session, 0 without history
VerifiedLinesOf(id) ==
    IF id \in Sessions THEN GetSessionStats(results, config, id).value.verifiedLines ELSE 0

(* C25: Synth is tokens per verified LOC: the tokensPerLOC a successful     *)
(* calculate reports for a session with verified lines equals the session's *)
(* total tokens divided by the number of its verified lines.                *)
C25_SynthPerVerifiedLOC ==
    \A id \in Known(sessions), snap \in CountedSnapshots, now \in Clock :
        VerifiedLinesOf(id) > 0 =>
            CalculateAt(id, snap, now).value.tokensPerLOC
                = Quotient(Num(TokensOf(sessions, id)), Num(VerifiedLinesOf(id)))

\* x <= y
FracLeq(x, y) == x = y \/ FracLt(x, y)

(* C26: the verificationRate of a successful calculate equals verifiedLOC / *)
(* totalLOC and lies between 0 and 1 inclusive: verifiedLOC never exceeds   *)
(* totalLOC.                                                                *)
C26_VerificationRate ==
    \A id \in Known(sessions), snap \in CountedSnapshots, now \in Clock :
        LET m == CalculateAt(id, snap, now).value
        IN  /\ m.verificationRate = Quotient(Num(m.verifiedLOC), Num(m.totalLOC))
            /\ FracLeq(Zero, m.verificationRate)
            /\ FracLeq(m.verificationRate, One)
            /\ m.verifiedLOC <= m.totalLOC

(* The part of C26 that holds: verificationRate is the quotient of the      *)
(* tracker's verified lines by the snapshot's total, and is not negative.   *)
C26_RateIsQuotient ==
    \A id \in Known(sessions), snap \in CountedSnapshots, now \in Clock :
        LET m == CalculateAt(id, snap, now).value
        IN  /\ m.verificationRate = Quotient(Num(VerifiedLinesOf(id)), Num(snap.totals.total))
            /\ FracLeq(Zero, m.verificationRate)

\* the sessions that have ended
EndedSessions == {id \in Known(sessions) : StatusOf(sessions, id) # "active"}

\* (endedAt - startedAt) of an ended session in minutes
MinutesOf(id) ==
    LET metadata == MapGet(sessions, id).metadata
    IN  Quotient(Num(GetTime(metadata.endedAt) - GetTime(metadata.startedAt)), Num(60000))

(* C27: for an ended session a successful calculate returns totalMinutes =  *)
(* (endedAt - startedAt) in minutes, locPerMinute = totalLOC / totalMinutes *)
(* and vlocPerMinute = verifiedLOC / totalMinutes, both rates being 0 when  *)
(* totalMinutes = 0.                                                        *)
C27_RatesPerMinute ==
    \A id \in EndedSessions, snap \in CountedSnapshots, now \in Clock :
        LET m == CalculateAt(id, snap, now).value
        IN  /\ m.totalMinutes = MinutesOf(id)
            /\ IF m.totalMinutes = Zero
               THEN m.locPerMinute = Zero /\ m.vlocPerMinute = Zero
               ELSE /\ m.locPerMinute = Quotient(Num(m.totalLOC), m.totalMinutes)
                    /\ m.vlocPerMinute = Quotient(Num(m.verifiedLOC), m.totalMinutes)

(* The part of C27 that holds: totalMinutes is (endedAt - startedAt) in     *)
(* minutes whatever the clock reads, the rates are the quotients when       *)
(* totalMinutes is positive, and both are 0 when it is zero or negative.    *)
C27_RatesOfPositiveDuration ==
    \A id \in EndedSessions, snap \in CountedSnapshots, now \in Clock :
        LET m == CalculateAt(id, snap, now).value
        IN  /\ m.totalMinutes = MinutesOf(id)
            /\ IF FracLt(Zero, m.totalMinutes)
               THEN /\ m.locPerMinute = Quotient(Num(snap.totals.total), m.totalMinutes)
                    /\ m.vlocPerMinute = Quotient(Num(VerifiedLinesOf(id)), m.totalMinutes)
               ELSE m.locPerMinute = Zero /\ m.vlocPerMinute = Zero

----------------------------------------------------------------------------
(* C28: recordSynthMeasurement fails with SESSION_NOT_FOUND for a session   *)
(* unknown to the collector and otherwise with NO_LOC_DATA for a snapshot   *)
(* whose total is 0, and a failed call leaves every trend as it was; a      *)
(* successful call appends the returned point at the end of the session's   *)
(* trend and leaves the trends of the other sessions as they were; no step  *)
(* (an emit or a measurement) removes or rewrites a point.                  *)
C28_TrendAppendOnly ==
    [][/\ \A id \in SessionIds, snap \in Snapshots :
            RecordSynthMeasurement(id, "US-1", snap) =>
                IF id \notin Known(sessions)
                THEN Failed(ret', "SESSION_NOT_FOUND") /\ synthTrends' = synthTrends
                ELSE IF snap.totals.total = 0
                THEN Failed(ret', "NO_LOC_DATA") /\ synthTrends' = synthTrends
                ELSE /\ ret'.result.ok
                     /\ GetSynthTrend(synthTrends', id)
                            = Append(GetSynthTrend(synthTrends, id), ret'.result.value)
                     /\ \A other \in SessionIds \ {id} :
                            GetSynthTrend(synthTrends', other)
                                = GetSynthTrend(synthTrends, other)
       /\ \A id \in SessionIds :
            IsPrefix(GetSynthTrend(synthTrends, id), GetSynthTrend(synthTrends', id))]_vars

\* a measurement has just been appended to a trend that already held a
\* point, while another session has a trend of its own
C28_Witness ==
    /\ ret.op = "recordSynthMeasurement"
    /\ ret.result.ok
    /\ \E id \in SessionIds :
        /\ Len(GetSynthTrend(synthTrends, id)) = 2
        /\ GetSynthTrend(synthTrends, id)[2] = ret.result.value
        /\ GetSynthTrend(synthTrends, id)[1] # ret.result.value
        /\ \E other \in SessionIds \ {id} : Len(GetSynthTrend(synthTrends, other)) = 1

(* C29: every trend point has synth = cumulativeTokens / loc, where         *)
(* cumulativeTokens is the session's token total and loc the snapshot's     *)
(* total at the call; the first point of a session has synthDelta = its own *)
(* synth, and every later point has synthDelta = its synth minus the synth  *)
(* of the point before it in the same session.                              *)
C29_SynthAndDelta ==
    /\ [](\A id \in SessionIds :
            LET trend == GetSynthTrend(synthTrends, id)
            IN  \A i \in 1..Len(trend) :
                    /\ trend[i].synth
                            = Quotient(Num(trend[i].cumulativeTokens), Num(trend[i].loc))
                    /\ i = 1 => trend[i].synthDelta = trend[i].synth
                    /\ i > 1 => trend[i].synthDelta
                                    = Difference(trend[i].synth, trend[i - 1].synth))
    /\ [][\A id \in SessionIds, snap \in Snapshots :
            RecordSynthMeasurement(id, "US-1", snap) /\ ret'.result.ok =>
                /\ ret'.result.value.cumulativeTokens = TokensOf(sessions, id)
                /\ ret'.result.value.loc = snap.totals.total]_vars

\* a trend whose synth rose and then fell
C29_Witness ==
    \E id \in SessionIds :
        LET trend == GetSynthTrend(synthTrends, id)
        IN  /\ Len(trend) = 3
            /\ FracLt(Zero, trend[1].synthDelta)
            /\ FracLt(Zero, trend[2].synthDelta)
            /\ FracLt(trend[3].synthDelta, Zero)

\* x + y, exactly
FracAdd(x, y) == Frac(x[1] * y[2] + y[1] * x[2], x[2] * y[2])

\* the exact sum of the deltas of the points from..to of a trend
RECURSIVE SumDeltas(_, _, _)
SumDeltas(trend, from, to) ==
    IF from > to THEN Zero
    ELSE FracAdd(SumDeltas(trend, from, to - 1), trend[to].synthDelta)

\* the consecutive differences of the synth values up to point n are numbers
\* the code can represent
ExactDifferences(trend, n) ==
    \A i \in 2..n :
        Fl(FracSub(trend[i].synth, trend[i - 1].synth))
            = FracSub(trend[i].synth, trend[i - 1].synth)

(* C30: trend deltas telescope: for every session and every N, the sum of   *)
(* the deltas of the points after the first up to the Nth equals            *)
(* trend[N].synth - trend[1].synth.                                         *)
C30_DeltasTelescope ==
    \A id \in SessionIds :
        LET trend == GetSynthTrend(synthTrends, id)
        IN  \A n \in 1..Len(trend) :
                SumDeltas(trend, 2, n) = FracSub(trend[n].synth, trend[1].synth)

(* C30 as it holds: the deltas telescope up to rounding.  Whenever the      *)
(* consecutive differences of the synth values up to the Nth point are      *)
(* representable numbers (as for integer synth values), the sum of the      *)
(* deltas after the first up to the Nth equals trend[N].synth -             *)
(* trend[1].synth, and adding the first delta gives trend[N].synth.         *)
C30_TelescopeWhenExact ==
    \A id \in SessionIds :
        LET trend == GetSynthTrend(synthTrends, id)
        IN  \A n \in 1..Len(trend) :
                ExactDifferences(trend, n) =>
                    /\ SumDeltas(trend, 2, n) = FracSub(trend[n].synth, trend[1].synth)
                    /\ SumDeltas(trend, 1, n) = trend[n].synth

\* a trend of three different synth values with representable differences
C30_Witness ==
    \E id \in SessionIds :
        LET trend == GetSynthTrend(synthTrends, id)
        IN  /\ Len(trend) = 3
            /\ ExactDifferences(trend, 3)
            /\ trend[1].synth # trend[2].synth
            /\ trend[2].synth # trend[3].synth
            /\ trend[1].synth # Zero

----------------------------------------------------------------------------
(* C34: every entry returned by getLineVerification(session, filePath) has  *)
(* location.filePath equal to the requested filePath, whatever file paths   *)
(* were recorded (also paths that contain ':' or that extend the requested  *)
(* path followed by ':').                                                   *)
C34_OnlyRequestedFile ==
    \A s \in Sessions, f \in FilePaths :
        LET entries == GetLineVerification(results, config, s, f).value
        IN  \A i \in 1..Len(entries) : entries[i].location.filePath = f

(* The part of C34 that holds: every entry returned for a file is of that   *)
(* file or of a file whose path extends the requested path followed by ':'. *)
C34_RequestedOrExtension ==
    \A s \in Sessions, f \in FilePaths :
        LET entries == GetLineVerification(results, config, s, f).value
        IN  \A i \in 1..Len(entries) :
                \/ entries[i].location.filePath = f
                \/ StartsWith(entries[i].location.filePath, f \o <<":">>)

----------------------------------------------------------------------------
\* the (file, line) pairs any gate observed in a session
CheckedByAny(list) == {<<o.filePath, o.lineNumber>> : o \in ObservationsOf(list)}

(* C40: for every session the tracker knows, getSessionStats returns        *)
(* totalLinesChecked = the number of distinct (file, line) pairs observed   *)
(* by any gate, verifiedLines <= totalLinesChecked and, for every gate,     *)
(* linesPassed <= linesChecked <= totalLinesChecked.                        *)
C40_StatsInequalities ==
    \A s \in Sessions :
        LET stats == GetSessionStats(results, config, s).value
        IN  /\ stats.totalLinesChecked = Cardinality(CheckedByAny(results[s]))
            /\ stats.verifiedLines <= stats.totalLinesChecked
            /\ \A g \in Gates :
                /\ stats.perGate[g].linesPassed <= stats.perGate[g].linesChecked
                /\ stats.perGate[g].linesChecked <= stats.totalLinesChecked

\* a session in which a gate passed fewer lines than it checked, checked
\* fewer lines than the session has, and not every line is verified
C40_Witness ==
    \E s \in Sessions :
        LET stats == GetSessionStats(results, config, s).value
        IN  /\ stats.verifiedLines > 0
            /\ stats.verifiedLines < stats.totalLinesChecked
            /\ \E g \in Gates :
                /\ stats.perGate[g].linesPassed < stats.perGate[g].linesChecked
                /\ stats.perGate[g].linesChecked < stats.totalLinesChecked

----------------------------------------------------------------------------
\* the events of a session, none for a session the collector does not know
EventsOf(store, id) == IF MapHas(store, id) THEN MapGet(store, id).events ELSE <<>>

(* C37: the event list of a session is the sequence of the events emitted   *)
(* successfully for it, in the order of the calls: a successful emit        *)
(* appends its event to the list of its session and nothing else changes a  *)
(* list.  So the first element is the session_start, a session_end occurs   *)
(* at most once and only as the last element, and the status differs from   *)
(* active exactly when the last element is a session_end.                   *)
C37_EventsInOrder ==
    /\ [](\A id \in Known(sessions) :
            LET events == EventsOf(sessions, id)
            IN  /\ events[1].eventType = "session_start"
                /\ \A i \in 2..Len(events) : events[i].eventType # "session_start"
                /\ \A i \in 1..(Len(events) - 1) : events[i].eventType # "session_end"
                /\ StatusOf(sessions, id) # "active"
                        <=> events[Len(events)].eventType = "session_end"
                /\ \A i \in 1..Len(events) : events[i].sessionId = id)
    /\ [][\A data \in EmitInputs : Emit(data) =>
            \A id \in SessionIds :
                EventsOf(sessions', id) =
                    IF ret'.result.ok /\ data.sessionId = id
                    THEN Append(EventsOf(sessions, id), data)
                    ELSE EventsOf(sessions, id)]_vars

\* an ended session that holds an event between its start and its end
C37_Witness ==
    \E id \in Known(sessions) :
        /\ Len(EventsOf(sessions, id)) = 3
        /\ EventsOf(sessions, id)[2].eventType = "tokens_in"
        /\ StatusOf(sessions, id) = "failed"

----------------------------------------------------------------------------
(* C39: the collector, the tracker and the trends are separate stores.      *)
(* record succeeds whatever the collector holds for the session id (never   *)
(* started, active or ended); recordSynthMeasurement succeeds for a known   *)
(* session with a non-empty snapshot also after the session ended; and      *)
(* calculate and recordSynthMeasurement report SESSION_NOT_FOUND exactly    *)
(* when the collector does not know the session, whatever the tracker and   *)
(* the trends hold.                                                         *)
C39_SeparateStores ==
    /\ [](\A id \in SessionIds, snap \in Snapshots, now \in Clock :
            NotFound(CalculateAt(id, snap, now)) <=> id \notin Known(sessions))
    /\ [][/\ \A id \in SessionIds :
                Record(id, StoreResult) =>
                    /\ ret'.result.ok
                    /\ id \in DOMAIN results'
          /\ \A id \in SessionIds, snap \in Snapshots :
                RecordSynthMeasurement(id, "US-1", snap) =>
                    /\ Failed(ret', "SESSION_NOT_FOUND") <=> id \notin Known(sessions)
                    /\ id \in Known(sessions) /\ snap.totals.total # 0 =>
                            ret'.result.ok]_vars

\* record has just succeeded for a session that has ended, the tracker holds
\* results for a session the collector never started, and the ended session
\* has a trend point
C39_Witness ==
    /\ ret.op = "record"
    /\ ret.result.ok
    /\ StatusOf(sessions, ret.result.value.sessionId) \in {"completed", "failed"}
    /\ GetSynthTrend(synthTrends, ret.result.value.sessionId) # <<>>
    /\ Sessions \ Known(sessions) # {}

\* recordSynthMeasurement has just succeeded for a session that has ended
C39_WitnessMeasured ==
    /\ ret.op = "recordSynthMeasurement"
    /\ ret.result.ok
    /\ \E id \in EndedSessions :
        /\ Len(GetSynthTrend(synthTrends, id)) = 1
        /\ \A other \in SessionIds \ {id} : GetSynthTrend(synthTrends, other) = <<>>

----------------------------------------------------------------------------
(* C31: for a session the collector knows and a snapshot with lines,       *)
(* getReport and formatReport succeed whatever the tracker and the trend   *)
(* store hold; the report's gateStats is null exactly when the tracker has *)
(* no record of the session and its synthTrend is empty exactly when no    *)
(* measurement of the session was stored; the formatted report has the     *)
(* GATE VERIFICATION section exactly when gateStats is not null and the    *)
(* SYNTH TREND section exactly when the trend is not empty.                *)

HasSection(lines, title) == \E i \in 1..Len(lines) : lines[i] = Line(title, <<>>)

Measured(id) == \E i \in 1..Len(synthTrends) : synthTrends[i].key = id

C31_OptionalData ==
    \A id \in Known(sessions), snap \in CountedSnapshots, now \in Clock :
        \A reportResult \in {GetReport(sessions, results, config, synthTrends, id, snap, now)},
           formatted \in {FormatReport(sessions, results, config, synthTrends, id, snap, now)} :
            /\ reportResult.ok
            /\ formatted.ok
            /\ reportResult.value.gateStats = Null <=> id \notin DOMAIN results
            /\ reportResult.value.synthTrend = <<>> <=> ~Measured(id)
            /\ HasSection(formatted.value, GATE_VERIFICATION)
                   <=> reportResult.value.gateStats # Null
            /\ HasSection(formatted.value, SYNTH_TREND)
                   <=> reportResult.value.synthTrend # <<>>

\* a session with a measurement and no gate record next to one with a gate
\* record and no measurement
C31_Witness ==
    /\ {"s1", "s2"} \subseteq Known(sessions)
    /\ \E a, b \in SessionIds :
           /\ a # b
           /\ Measured(a) /\ a \notin DOMAIN results
           /\ ~Measured(b) /\ b \in DOMAIN results

----------------------------------------------------------------------------
(* C38: a call of calculate, getReport, formatReport, getSynthTrend,       *)
(* getResults, getGateStats, getSessionStats, getLineVerification or       *)
(* getConfig, whether it succeeds or fails, leaves the collector's         *)
(* sessions, the gate observations, the gate policy and every trend list   *)
(* as they were.                                                           *)

ReadOperations ==
    {"calculate", "getReport", "formatReport", "getSynthTrend", "getResults",
     "getGateStats", "getSessionStats", "getLineVerification", "getConfig"}

C38_ReadsChangeNothing ==
    [][ret'.op \in ReadOperations
           => UNCHANGED <<sessions, results, config, synthTrends>>]_vars

\* a getSynthTrend call for a session without a trend, made while the stores
\* hold a session, a gate record and a measurement
C38_Witness ==
    /\ ret.op = "getSynthTrend"
    /\ ret.result = <<>>
    /\ Len(sessions) > 0
    /\ DOMAIN results # {}
    /\ Len(synthTrends) > 0

----------------------------------------------------------------------------
(* C32: for every content and language, countLines returns                 *)
(* total = code + comments + blank, and total is the number of segments    *)
(* the line feeds of the content delimit (a carriage return before a line  *)
(* feed belongs to the separator, one elsewhere separates nothing); the    *)
(* empty content gives total 1, blank 1, code 0, comments 0.               *)

\* the calls of countLines that have returned
Counts == ret.op = "countLines" /\ ~Pending(ret)

LineFeeds(content) == Cardinality({i \in 1..Len(content) : content[i] = LF})

C32_TotalIsSum ==
    Counts =>
        LET value == ret.result
        IN  /\ value.total = value.code + value.comments + value.blank
            /\ value.total = LineFeeds(ret.args.content) + 1
            /\ \A k \in {"code", "comments", "blank"} : value[k] >= 0
            /\ ret.args.content = <<>>
                   => value = [total |-> 1, code |-> 0, comments |-> 0, blank |-> 1]

\* a content with a carriage return on its own and a CRLF
C32_Witness ==
    /\ Counts
    /\ ret.args.content = <<CR, "x", CR, LF, "/", "/">>
    /\ ret.result = [total |-> 2, code |-> 1, comments |-> 1, blank |-> 0]

C32_WitnessEmpty ==
    /\ Counts
    /\ ret.args.content = <<>>
    /\ ret.result.total = 1

----------------------------------------------------------------------------
(* The lines of the content of a returned countLines call, one by one       *)

LinesCounted == Split(ret.args.content)

StyleCounted == COMMENT_STYLES[ret.args.language]

HasBlocks(style) == style.blockStart # Null /\ style.blockEnd # Null

\* the counters and inBlockComment before and after line i
BeforeLine(i) == Loop(LinesCounted, StyleCounted, i - 1)
AfterLine(i) == Loop(LinesCounted, StyleCounted, i)

\* line i incremented the counter k and no other
CountedAs(i, k) ==
    \A c \in {"code", "comments", "blank"} :
        AfterLine(i)[c] = BeforeLine(i)[c] + (IF c = k THEN 1 ELSE 0)

\* text has something that is not a comment: it is not blank, does not start
\* with the line-comment token, and if it starts with a block comment, that
\* comment is closed and what follows it has something that is not a comment
RECURSIVE NonCommentText(_, _)
NonCommentText(text, style) ==
    LET trimmed == Trim(text)
    IN  IF trimmed = <<>> THEN FALSE
        ELSE IF StartsWith(trimmed, style.lineComment) THEN FALSE
        ELSE IF StartsWith(trimmed, style.blockStart)
        THEN LET afterStart == Substring(trimmed, Len(style.blockStart))
             IN  /\ StrIncludes(afterStart, style.blockEnd)
                 /\ NonCommentText(
                        Substring(afterStart,
                                  IndexOf(afterStart, style.blockEnd)
                                      + Len(style.blockEnd)),
                        style)
        ELSE TRUE

\* what follows the first close token of a line
AfterClose(trimmed, style) ==
    Substring(trimmed, IndexOf(trimmed, style.blockEnd) + Len(style.blockEnd))

(* C35: inside a block comment, a non-blank line without the close token   *)
(* is counted as comment and the state stays inside, whatever else the     *)
(* line contains; a line with the close token ends the state and is        *)
(* counted as code if text that is not a comment follows the close token   *)
(* on the line, and as comment otherwise.                                  *)
C35_InsideBlockComment ==
    Counts =>
        \A i \in 1..Len(LinesCounted) :
            LET trimmed == Trim(LinesCounted[i])
            IN  BeforeLine(i).inBlockComment /\ trimmed # <<>> =>
                    IF ~StrIncludes(trimmed, StyleCounted.blockEnd)
                    THEN CountedAs(i, "comments") /\ AfterLine(i).inBlockComment
                    ELSE /\ ~AfterLine(i).inBlockComment
                         /\ CountedAs(i, IF NonCommentText(
                                                 AfterClose(trimmed, StyleCounted),
                                                 StyleCounted)
                                         THEN "code" ELSE "comments")

\* what holds: the line with the close token is counted as code exactly when
\* what follows the token is not blank and does not start with the
\* line-comment token
C35_InsideBlockCommentAsCoded ==
    Counts =>
        \A i \in 1..Len(LinesCounted) :
            LET trimmed == Trim(LinesCounted[i])
                rest == Trim(AfterClose(trimmed, StyleCounted))
            IN  BeforeLine(i).inBlockComment /\ trimmed # <<>> =>
                    IF ~StrIncludes(trimmed, StyleCounted.blockEnd)
                    THEN CountedAs(i, "comments") /\ AfterLine(i).inBlockComment
                    ELSE /\ ~AfterLine(i).inBlockComment
                         /\ CountedAs(i, IF /\ rest # <<>>
                                            /\ ~StartsWith(rest, StyleCounted.lineComment)
                                         THEN "code" ELSE "comments")

\* inside a block comment, a line that closes it and opens another
C35_ClosedAndReopened ==
    /\ Counts
    /\ ret.args = [content |-> <<"/", "*", LF, "*", "/", "/", "*">>,
                   language |-> "typescript"]
    /\ ret.result = [total |-> 2, code |-> 1, comments |-> 1, blank |-> 0]

(* C36: outside a block comment, a non-blank line that contains the        *)
(* block-open token with no close token after it is counted as code if     *)
(* text that is not blank precedes the open token and as comment           *)
(* otherwise, and the state becomes inside; also when the line starts      *)
(* with the line-comment token or contains it before the open token.       *)
C36_BlockOpened ==
    Counts =>
        \A i \in 1..Len(LinesCounted) :
            LET trimmed == Trim(LinesCounted[i])
                style == StyleCounted
                startIdx == IndexOf(trimmed, style.blockStart)
            IN  /\ HasBlocks(style)
                /\ ~BeforeLine(i).inBlockComment
                /\ trimmed # <<>>
                /\ startIdx # -1
                /\ ~StrIncludes(Substring(trimmed, startIdx + Len(style.blockStart)),
                                style.blockEnd)
                => /\ AfterLine(i).inBlockComment
                   /\ CountedAs(i, IF Trim(SubSeq(trimmed, 1, startIdx)) # <<>>
                                   THEN "code" ELSE "comments")

\* a line that starts with the line-comment token and then opens a block
\* comment is counted as code, and the next line as comment
C36_Witness ==
    /\ Counts
    /\ ret.args = [content |-> <<"/", "/", "/", "*", LF, "x">>,
                   language |-> "javascript"]
    /\ ret.result = [total |-> 2, code |-> 1, comments |-> 1, blank |-> 0]

----------------------------------------------------------------------------
(* C33: when every source file of the tree lies under a directory, at any  *)
(* depth below the root, whose name is one of the names to skip, the       *)
(* snapshot has no files and all its totals are zero, and                  *)
(* snapshotCodebase returns normally.                                      *)

\* the snapshotCodebase calls that have returned
Snapshotted == ret.op = "snapshotCodebase" /\ ~Pending(ret)

IsSourceFile(entry) ==
    /\ entry.kind = "file"
    /\ \E i \in 1..Len(EXTENSION_MAP) :
           LET ext == EXTENSION_MAP[i].key
               n == Len(entry.name)
           IN  /\ n > Len(ext)
               /\ ToLowerCase(SubSeq(entry.name, n - Len(ext) + 1, n)) = ext

\* the source files of a listing and below that have no directory with a
\* name to skip above them
RECURSIVE SourcesNotSkipped(_)
SourcesNotSkipped(entries) ==
    UNION {IF IsSourceFile(entries[i]) THEN {entries[i]}
           ELSE IF /\ entries[i].kind = "directory"
                   /\ entries[i].name \notin SKIP_DIRECTORIES
                THEN SourcesNotSkipped(entries[i].entries)
                ELSE {} : i \in 1..Len(entries)}

\* the source files of a listing and below
RECURSIVE Sources(_)
Sources(entries) ==
    UNION {IF IsSourceFile(entries[i]) THEN {entries[i]}
           ELSE IF entries[i].kind = "directory" THEN Sources(entries[i].entries)
           ELSE {} : i \in 1..Len(entries)}

C33_OnlySkippedSources ==
    Snapshotted /\ SourcesNotSkipped(ret.args.root.entries) = {} =>
        /\ ret.result.files = <<>>
        /\ ret.result.totals = EmptyResult
        /\ \A language \in Languages : ret.result.byLanguage[language] = EmptyResult

\* a readable source file two directories below the root, under src/dist
C33_Witness ==
    /\ Snapshotted
    /\ ret.args.root.readable
    /\ \E i \in 1..Len(ret.args.root.entries) :
           LET src == ret.args.root.entries[i]
           IN  /\ src.name = <<"s", "r", "c">>
               /\ src.readable
               /\ Len(src.entries) = 1
               /\ src.entries[1].name = <<"d", "i", "s", "t">>
               /\ \E file \in Sources(src.entries[1].entries) : file.readable
    /\ SourcesNotSkipped(ret.args.root.entries) = {}
    /\ ret.result.files = <<>>

============================================================================
